---- MODULE Spec2Model ----
(***************************************************************************)
(* A model of src/src/rpm/rpm.rs: the RPM v3 lead, the tagged header codec *)
(* (IndexHeader, IndexEntry, IndexData, the store and its region tag), the *)
(* package reader/writer and RPMBuilder.                                   *)
(*                                                                         *)
(* Bytes are integers 0..255 and byte strings are sequences of them; a     *)
(* Rust String is the sequence of its UTF-8 bytes.  A Result is a record   *)
(* whose field st is "ok", "err" (an Err(RPMError) was returned) or        *)
(* "panic" (the program aborted: slice index out of range, failed assert,  *)
(* arithmetic overflow in a checked build).                                *)
(***************************************************************************)
EXTENDS Integers, Sequences, FiniteSets, TLC

VARIABLES
    \* ---- header codec scenario (Header::from_entries / write / parse)
    hpc,        \* position of the header scenario
    region,     \* the region tag the header is built with (62 or 63)
    records,    \* the caller's Vec<IndexEntry<T>> handed to from_entries
    hdr,        \* the Header the caller holds
    horigin,    \* where hdr / hbytes came from: from_entries, foreign, parsed
    hbytes,     \* the bytes written by Header::write / write_signature
    hparsed,    \* the Result of Header::parse / parse_signature on hbytes
    hlookup,    \* the tag looked up in hdr and what the four accessors returned
    hregion,    \* a call of create_region_tag and the IndexEntry parsed from its value
    \* ---- lead scenario (Lead::new / write / parse)
    lpc,        \* position of the lead scenario
    lname,      \* the package name given to Lead::new
    lead,       \* the Result of Lead::new
    lbytes,     \* the 96 bytes Lead::write emitted, or a foreign lead
    lparsed,    \* the Result of Lead::parse on lbytes
    \* ---- package reader scenario (RPMPackage::parse / write)
    ppc,        \* position of the reader scenario
    pinput,     \* the byte stream handed to RPMPackage::parse
    ppkg,       \* the Result of RPMPackage::parse
    pout,       \* the bytes RPMPackage::write emits for the package
    preparsed,  \* what parsing pout, and the written signature header, returned
    \* ---- builder scenario (RPMBuilder)
    bpc,        \* "building" until build() has consumed the builder
    builder,    \* the RPMBuilder value
    built,      \* the Result of RPMBuilder::build, with its payload trace
    bcalls,     \* the number of builder methods called since RPMBuilder::new
    bfiles      \* the (source, dest) of the with_file calls that returned Ok, in order

vars == <<hpc, region, records, hdr, horigin, hbytes, hparsed, hlookup, hregion,
          lpc, lname, lead, lbytes, lparsed,
          ppc, pinput, ppkg, pout, preparsed, bpc, builder, built, bcalls, bfiles>>

hvars == <<hpc, region, records, hdr, horigin, hbytes, hparsed, hlookup, hregion>>
lvars == <<lpc, lname, lead, lbytes, lparsed>>
pvars == <<ppc, pinput, ppkg, pout, preparsed>>
bvars == <<bpc, builder, built, bcalls, bfiles>>

None == [st |-> "none"]

-----------------------------------------------------------------------------
(* Bounds of the model *)

\* longest entry list handed to from_entries in the header scenario
MaxEntries == 2

\* longest package name handed to Lead::new in the lead scenario
MaxNameLen == 67
\* builder methods called between RPMBuilder::new and build
MaxCalls == 2

-----------------------------------------------------------------------------
(* Byte-level helpers.                                                     *)
(* TLC's integers are 32-bit.  An i32 is itself.  A u32 is held as the i32  *)
(* with the same bits, so a u32 of 2^31 or more reads as a negative number  *)
(* (U32Huge) and to_be_bytes gives its bytes back.  An i16/i8/u16/u8 is     *)
(* itself.  An i64 is held as an integer and the model only holds i64       *)
(* values that fit in 32 bits: to_be_bytes sign-extends them to 8 bytes.    *)

Pow256(n) == 256 ^ n

\* iN::to_be_bytes / uN::to_be_bytes: n bytes, big-endian, two's complement
to_be_bytes(x, n) ==
    [i \in 1..n |->
        IF n - i >= 4 THEN (IF x < 0 THEN 255 ELSE 0)
        ELSE (x \div Pow256(n - i)) % 256]

RECURSIVE be_uint(_)
\* nom be_u8 / be_u16 on exactly the bytes given (at most 3 bytes)
be_uint(bs) ==
    IF bs = <<>> THEN 0
    ELSE be_uint(SubSeq(bs, 1, Len(bs) - 1)) * 256 + bs[Len(bs)]

\* nom be_i8 / be_i16 / be_i32 on exactly the bytes given (at most 4 bytes)
be_int(bs) ==
    LET top == IF bs[1] >= 128 THEN bs[1] - 256 ELSE bs[1]
    IN  top * Pow256(Len(bs) - 1) + be_uint(Tail(bs))

\* nom be_u32 on 4 bytes, as the i32 with the same bits
be_u32(bs) == be_int(bs)

\* nom be_i64 on 8 bytes holding a value that fits in 32 bits
be_i64(bs) == be_int(SubSeq(bs, 5, 8))

\* a u32 of 2^31 or more: beyond every length, count and code of the model
U32Huge(x) == x < 0

\* 2^28: sixteen times this no longer fits a u32
TwoPow28 == 2 ^ 28

\* 2^27: sixteen times this no longer fits an i32
TwoPow27 == 2 ^ 27

\* x * -16 in i32 arithmetic without overflow checks, for x >= 0: the result
\* modulo 2^32, counted in units of 16, as a signed number
wrapping_mul_neg16(x) ==
    LET u == (TwoPow28 - (x % TwoPow28)) % TwoPow28
    IN  IF u >= TwoPow27 THEN (u - TwoPow28) * 16 ELSE u * 16

Zeros(n) == [i \in 1..n |-> 0]

\* the element of a one-element set.  The({e : x \in {v}}) is the value of e
\* with the local name x bound to v, v being computed once (a Rust `let`).
The(S) == CHOOSE y \in S : TRUE

Drop(s, n) == SubSeq(s, n + 1, Len(s))

Take(s, n) == SubSeq(s, 1, n)

RECURSIVE Flatten(_)
Flatten(ss) == IF ss = <<>> THEN <<>> ELSE Head(ss) \o Flatten(Tail(ss))

RECURSIVE SumSeq(_)
SumSeq(s) == IF s = <<>> THEN 0 ELSE Head(s) + SumSeq(Tail(s))

Range(s) == {s[i] : i \in 1..Len(s)}

-----------------------------------------------------------------------------
(* IndexData: the nine value kinds.  A value is [kind |-> code, v |-> x]    *)
(* where x is a sequence of integers (Char, Int8..Int64, Bin), one string   *)
(* (StringTag), a sequence of strings (StringArray, I18NString) or <<>>     *)
(* (Null).  The kind codes are those of IndexData::to_u32.                  *)

KNull == 0
KChar == 1
KInt8 == 2
KInt16 == 3
KInt32 == 4
KInt64 == 5
KString == 6
KBin == 7
KStringArray == 8
KI18NString == 9

IntKinds == {KInt16, KInt32, KInt64}
StringArrayKinds == {KStringArray, KI18NString}

Data(k, x) == [kind |-> k, v |-> x]

\* IndexData::to_u32
to_u32(d) == d.kind

\* IndexData::from_u32: Some(empty value of the kind) for 0..=9, None otherwise
from_u32(i) ==
    IF i \in 0..9 THEN [st |-> "ok", data |-> Data(i, <<>>)] ELSE [st |-> "err"]

\* the element width of the integer kinds (and of the one-byte kinds)
ItemWidth(k) ==
    CASE k = KInt16 -> 2
      [] k = KInt32 -> 4
      [] k = KInt64 -> 8
      [] OTHER -> 1

\* IndexData::num_items
num_items(d) ==
    CASE d.kind = KNull -> 0
      [] d.kind = KString -> 1
      [] OTHER -> Len(d.v)

\* a variant of IndexData::byte_size that leaves the terminator of a string out
byte_size_NoTerminator(d) ==
    CASE d.kind = KNull -> 0
      [] d.kind = KString -> Len(d.v)
      [] d.kind \in StringArrayKinds -> SumSeq([i \in 1..Len(d.v) |-> Len(d.v[i]) + 1])
      [] OTHER -> Len(d.v) * ItemWidth(d.kind)

\* IndexData::byte_size
byte_size(d) ==
    CASE d.kind = KNull -> 0
      [] d.kind = KString -> Len(d.v) + 1
      [] d.kind \in StringArrayKinds -> SumSeq([i \in 1..Len(d.v) |-> Len(d.v[i]) + 1])
      [] OTHER -> Len(d.v) * ItemWidth(d.kind)

\* the bytes IndexData::append pushes for the value itself (after any padding)
ValueBytes(d) ==
    CASE d.kind = KNull -> <<>>
      [] d.kind \in {KChar, KBin} -> d.v
      [] d.kind = KString -> d.v \o <<0>>
      [] d.kind \in StringArrayKinds -> Flatten([i \in 1..Len(d.v) |-> d.v[i] \o <<0>>])
      [] OTHER -> Flatten([i \in 1..Len(d.v) |-> to_be_bytes(d.v[i], ItemWidth(d.kind))])

\* a variant of AlignPad that pushes the remainder instead of its complement
AlignPad_Remainder(k, len) ==
    IF k \in IntKinds THEN len % ItemWidth(k) ELSE 0

\* the number of zero bytes IndexData::append pushes before the value:
\* Int16 pushes one when the store length is odd; Int32 and Int64 push until
\* the length is a multiple of 4 and 8
AlignPad(k, len) ==
    IF k \in IntKinds THEN (ItemWidth(k) - (len % ItemWidth(k))) % ItemWidth(k) ELSE 0

\* IndexData::append: the store after the call and the returned alignment
append(d, store) ==
    LET pad == AlignPad(d.kind, Len(store))
    IN  [store |-> store \o Zeros(pad) \o ValueBytes(d), alignment |-> pad]

-----------------------------------------------------------------------------
(* Tags *)

HEADER_SIGNATURES == 62
HEADER_IMMUTABLE == 63

\* the discriminants of enum IndexTag
IndexTag ==
    (61..64) \cup {100, 256} \cup (258..271) \cup {273} \cup (1000..1069)
    \cup (1079..1196) \cup (5000..5027) \cup (5029..5096)

\* the discriminants of enum IndexSignatureTag
IndexSignatureTag == {62, 1000, 1007, 269, 1004, 267, 268, 1002, 1005}

RPMSIGTAG_SIZE == 1000
RPMSIGTAG_MD5 == 1004
RPMSIGTAG_SHA1 == 269

\* T: the tag enum a Header<T> is instantiated with
TagSet(T) == IF T = "sig" THEN IndexSignatureTag ELSE IndexTag

\* a variant of tag_from_u32 that accepts the tags of both enums
tag_from_u32_AnyEnum(T, raw) ==
    IF raw \in IndexTag \cup IndexSignatureTag THEN [st |-> "ok", tag |-> raw]
    ELSE [st |-> "err"]

\* num::FromPrimitive::from_u32 for the tag enum
tag_from_u32(T, raw) == IF raw \in TagSet(T) THEN [st |-> "ok", tag |-> raw] ELSE [st |-> "err"]

-----------------------------------------------------------------------------
(* IndexHeader and IndexEntry *)

HEADER_MAGIC == <<142, 173, 232>>

\* IndexHeader::new
IndexHeader_new(n, size) ==
    [magic |-> HEADER_MAGIC, version |-> 1, num_entries |-> n, header_size |-> size]

\* a variant of IndexHeader::write that emits HEADER_MAGIC, not the magic read
IndexHeader_write_ConstMagic(ih) ==
    HEADER_MAGIC \o <<ih.version>> \o Zeros(4) \o to_be_bytes(ih.num_entries, 4)
    \o to_be_bytes(ih.header_size, 4)

\* IndexHeader::write: magic, version, four zero bytes, num_entries, header_size
IndexHeader_write(ih) ==
    ih.magic \o <<ih.version>> \o Zeros(4) \o to_be_bytes(ih.num_entries, 4)
    \o to_be_bytes(ih.header_size, 4)

\* IndexHeader::parse on a 16-byte buffer: only magic bytes 0 and 1 are compared
\* (for i in 0..2), the version must be 1, the reserved bytes are skipped.
\* An error carries the byte its message prints.
IndexHeader_parse(buf) ==
    IF \E i \in 1..2 : HEADER_MAGIC[i] # buf[i]
    THEN [st |-> "err", error |-> "invalid magic",
          got |-> buf[CHOOSE i \in 1..2 : /\ HEADER_MAGIC[i] # buf[i]
                                          /\ \A j \in 1..(i - 1) : HEADER_MAGIC[j] = buf[j]]]
    ELSE IF buf[4] # 1 THEN [st |-> "err", error |-> "unsupported version", got |-> buf[4]]
    ELSE [st |-> "ok",
          ih |-> [magic |-> Take(buf, 3), version |-> 1,
                  num_entries |-> be_u32(SubSeq(buf, 9, 12)),
                  header_size |-> be_u32(SubSeq(buf, 13, 16))]]

\* IndexEntry::new
IndexEntry_new(tag, offset, data) ==
    [tag |-> tag, data |-> data, offset |-> offset, num_items |-> num_items(data)]

\* IndexEntry::write_index: tag, type, offset, count, each four bytes big-endian
write_index(e) ==
    to_be_bytes(e.tag, 4) \o to_be_bytes(to_u32(e.data), 4) \o to_be_bytes(e.offset, 4)
    \o to_be_bytes(e.num_items, 4)

\* IndexEntry::parse: the entry and the rest of the input.  An unknown tag
\* and an unknown type are errors that carry the integer read; an input that
\* ends early is an error of the nom parser.
IndexEntry_parse(T, input) ==
    IF Len(input) < 4 THEN [st |-> "err", error |-> "nom", got |-> 0]
    ELSE LET t == tag_from_u32(T, be_u32(SubSeq(input, 1, 4)))
         IN  IF t.st # "ok"
             THEN [st |-> "err", error |-> "invalid tag", got |-> be_u32(SubSeq(input, 1, 4))]
             ELSE IF Len(input) < 8 THEN [st |-> "err", error |-> "nom", got |-> 0]
             ELSE LET d == from_u32(be_u32(SubSeq(input, 5, 8)))
                  IN  IF d.st # "ok"
                      THEN [st |-> "err", error |-> "invalid tag_type",
                            got |-> be_u32(SubSeq(input, 5, 8))]
                      ELSE IF Len(input) < 16 THEN [st |-> "err", error |-> "nom", got |-> 0]
                      ELSE [st |-> "ok",
                            entry |-> [tag |-> t.tag, data |-> d.data,
                                       offset |-> be_int(SubSeq(input, 9, 12)),
                                       num_items |-> be_u32(SubSeq(input, 13, 16))],
                            rest |-> Drop(input, 16)]

-----------------------------------------------------------------------------
(* Header: [index_header, index_entries, store] *)

\* a variant of create_region_tag that leaves the region entry itself out of
\* the count the encoded offset is computed from
create_region_tag_NotCountingItself(tag, records_count, offset) ==
    LET hie == [IndexEntry_new(tag, records_count * (-16), Data(KBin, <<>>))
                    EXCEPT !.num_items = 16]
    IN  IndexEntry_new(tag, offset, Data(KBin, write_index(hie)))

\* a variant of create_region_tag that leaves out hie.num_items = 16
create_region_tag_CountOfValue(tag, records_count, offset) ==
    LET hie == IndexEntry_new(tag, wrapping_mul_neg16(records_count + 1), Data(KBin, <<>>))
    IN  IndexEntry_new(tag, offset, Data(KBin, write_index(hie)))

\* Header::create_region_tag: a Bin entry at `offset` whose 16-byte value is
\* the index record of a Bin entry of count 16 at offset (records_count + 1) * -16,
\* in i32 arithmetic as a build without overflow checks computes it (a build
\* with overflow checks aborts when it overflows, see RegionTagOverflows)
create_region_tag(tag, records_count, offset) ==
    LET hie == [IndexEntry_new(tag, wrapping_mul_neg16(records_count + 1), Data(KBin, <<>>))
                    EXCEPT !.num_items = 16]
    IN  IndexEntry_new(tag, offset, Data(KBin, write_index(hie)))

\* (records_count + 1) * -16 does not fit an i32
RegionTagOverflows(records_count) == records_count >= TwoPow27

RECURSIVE PlaceRecords(_, _)
\* the loop of Header::from_entries: each record gets offset = store.len()
\* before its append plus the alignment the append returned.  The records
\* are taken in order, the first half before the second.
PlaceRecords(recs, store) ==
    IF recs = <<>> THEN [records |-> <<>>, store |-> store]
    ELSE IF Len(recs) = 1
    THEN The({ [records |-> <<[recs[1] EXCEPT !.offset = Len(store) + a.alignment]>>,
                store |-> a.store]
               : a \in {append(recs[1].data, store)} })
    ELSE The({ The({ [records |-> first.records \o second.records,
                      store |-> second.store]
                     : second \in {PlaceRecords(Drop(recs, Len(recs) \div 2), first.store)} })
               : first \in {PlaceRecords(Take(recs, Len(recs) \div 2), store)} })

\* a variant of Header::from_entries that puts the region entry after the
\* records instead of before them
from_entries_RegionLast(actual_records, region_tag) ==
    The({ The({ The({ [index_header |-> IndexHeader_new(1 + Len(placed.records), Len(store)),
                       index_entries |-> placed.records \o <<rt>>,
                       store |-> store]
                     : store \in {append(rt.data, placed.store).store} })
               : rt \in {create_region_tag(region_tag, Len(actual_records),
                                          Len(placed.store))} })
         : placed \in {PlaceRecords(actual_records, <<>>)} })

\* Header::from_entries
from_entries(actual_records, region_tag) ==
    The({ The({ The({ [index_header |-> IndexHeader_new(1 + Len(placed.records), Len(store)),
                       index_entries |-> <<rt>> \o placed.records,
                       store |-> store]
                     : store \in {append(rt.data, placed.store).store} })
               : rt \in {create_region_tag(region_tag, Len(actual_records),
                                          Len(placed.store))} })
         : placed \in {PlaceRecords(actual_records, <<>>)} })

\* Header::write: index header, each entry's index record, the store verbatim
Header_write(h) ==
    IndexHeader_write(h.index_header)
    \o Flatten([i \in 1..Len(h.index_entries) |-> write_index(h.index_entries[i])])
    \o h.store

\* a variant of find_entry that returns the last entry with the tag
find_entry_Last(h, tag) ==
    IF \E i \in 1..Len(h.index_entries) : h.index_entries[i].tag = tag
    THEN [st |-> "some",
          v |-> h.index_entries[CHOOSE i \in 1..Len(h.index_entries) :
                                   /\ h.index_entries[i].tag = tag
                                   /\ \A j \in (i + 1)..Len(h.index_entries) :
                                         h.index_entries[j].tag # tag]]
    ELSE None

\* Header::find_entry: the first entry with the tag, or None
find_entry(h, tag) ==
    IF \E i \in 1..Len(h.index_entries) : h.index_entries[i].tag = tag
    THEN [st |-> "some",
          v |-> h.index_entries[CHOOSE i \in 1..Len(h.index_entries) :
                                   /\ h.index_entries[i].tag = tag
                                   /\ \A j \in 1..(i - 1) : h.index_entries[j].tag # tag]]
    ELSE None

\* Header::find_entry_or_err: the first entry with the tag, or an error
\* naming the tag
find_entry_or_err(h, tag) ==
    IF \E i \in 1..Len(h.index_entries) : h.index_entries[i].tag = tag
    THEN [st |-> "ok",
          v |-> h.index_entries[CHOOSE i \in 1..Len(h.index_entries) :
                                   /\ h.index_entries[i].tag = tag
                                   /\ \A j \in 1..(i - 1) : h.index_entries[j].tag # tag]]
    ELSE [st |-> "err", error |-> "unable to find Tag", got |-> tag]

\* IndexData::string: Some for StringTag only
IndexData_string(d) == IF d.kind = KString THEN [st |-> "some", v |-> d.v] ELSE None

\* IndexData::string_array: Some for StringArray and I18NString only
IndexData_string_array(d) ==
    IF d.kind \in {KStringArray, KI18NString} THEN [st |-> "some", v |-> d.v] ELSE None

\* Header::get_entry_string_data
get_entry_string_data(h, tag) ==
    The({ IF e.st # "ok" THEN e
          ELSE IF IndexData_string(e.v.data) = None
          THEN [st |-> "err", error |-> "not string", got |-> e.v.tag]
          ELSE [st |-> "ok", v |-> IndexData_string(e.v.data).v]
          : e \in {find_entry_or_err(h, tag)} })

\* Header::get_entry_string_array_data
get_entry_string_array_data(h, tag) ==
    The({ IF e.st # "ok" THEN e
          ELSE IF IndexData_string_array(e.v.data) = None
          THEN [st |-> "err", error |-> "does not provide string array", got |-> e.v.tag]
          ELSE [st |-> "ok", v |-> IndexData_string_array(e.v.data).v]
          : e \in {find_entry_or_err(h, tag)} })

\* a variant of SignaturePad that emits the remainder instead of its complement
SignaturePad_Remainder(header_size) == header_size % 8

\* the padding Header::write_signature emits and parse_signature discards
SignaturePad(header_size) ==
    LET modulo == header_size % 8 IN IF modulo > 0 THEN 8 - modulo ELSE 0

\* a variant of Header::write_signature that pads a store whose size is a
\* multiple of 8 with 8 bytes
write_signature_AlwaysPads(h) ==
    Header_write(h) \o Zeros(8 - (h.index_header.header_size % 8))

\* Header::write_signature
write_signature(h) == Header_write(h) \o Zeros(SignaturePad(h.index_header.header_size))

\* nom complete::take_till(|item| item == 0): the length of the longest prefix
\* holding no zero byte (the whole input when it holds none)
take_till_nul(input) ==
    IF \E i \in 1..Len(input) : input[i] = 0
    THEN (CHOOSE i \in 1..Len(input) : input[i] = 0 /\ \A j \in 1..(i - 1) : input[j] # 0) - 1
    ELSE Len(input)

\* String::from_utf8_lossy on bytes that hold no multi-byte sequence: an ASCII
\* byte is kept, any other byte becomes U+FFFD (EF BF BD)
from_utf8_lossy(bs) ==
    Flatten([i \in 1..Len(bs) |-> IF bs[i] < 128 THEN <<bs[i]>> ELSE <<239, 191, 189>>])

\* parse_entry_data_number: num_items fixed-width big-endian numbers, an error
\* when the input ends early
parse_entry_data_number(input, n, width, signed) ==
    IF U32Huge(n) \/ n > Len(input) THEN [st |-> "err", error |-> "nom", got |-> 0]
    ELSE IF Len(input) < n * width THEN [st |-> "err", error |-> "nom", got |-> 0]
    ELSE [st |-> "ok",
          v |-> [i \in 1..n |->
                    LET bs == SubSeq(input, (i - 1) * width + 1, i * width)
                    IN  IF width = 8 THEN be_i64(bs)
                        ELSE IF signed THEN be_int(bs) ELSE be_uint(bs)]]

RECURSIVE parse_string_array(_, _)
\* the StringArray arm of Header::parse: take up to the NUL, then
\* remaining = &rest[1..], which aborts when no byte is left
parse_string_array(remaining, n) ==
    IF n = 0 THEN [st |-> "ok", v |-> <<>>]
    ELSE LET k == take_till_nul(remaining)
             rest == Drop(remaining, k)
         IN  IF rest = <<>> THEN [st |-> "panic"]
             ELSE LET more == parse_string_array(Tail(rest), n - 1)
                  IN  IF more.st # "ok" THEN more
                      ELSE [st |-> "ok",
                            v |-> <<from_utf8_lossy(Take(remaining, k))>> \o more.v]

RECURSIVE parse_i18n_string(_, _)
\* the I18NString arm of Header::parse: take up to the NUL, then
\* remaining = rest, which still starts with that NUL
parse_i18n_string(remaining, n) ==
    IF n = 0 THEN [st |-> "ok", v |-> <<>>]
    ELSE LET k == take_till_nul(remaining)
             rest == Drop(remaining, k)
             more == parse_i18n_string(rest, n - 1)
         IN  [st |-> "ok", v |-> <<from_utf8_lossy(Take(remaining, k))>> \o more.v]

\* the body of the `for entry in &mut entries` loop of Header::parse
parse_entry_data(store, entry) ==
    IF entry.offset < 0 \/ entry.offset > Len(store) THEN [st |-> "panic"]
    ELSE The({ IF r.st # "ok" THEN r
               ELSE [st |-> "ok", entry |-> [entry EXCEPT !.data = Data(k, r.v)]]
               : k \in {entry.data.kind},
                 r \in {LET remaining == Drop(store, entry.offset)
                            kind == entry.data.kind
                        IN  CASE kind = KNull -> [st |-> "ok", v |-> <<>>]
                              [] kind \in {KChar, KBin} ->
                                   parse_entry_data_number(remaining, entry.num_items, 1, FALSE)
                              [] kind \in {KInt8, KInt16, KInt32, KInt64} ->
                                   parse_entry_data_number(remaining, entry.num_items,
                                                           ItemWidth(kind), TRUE)
                              [] kind = KString ->
                                   [st |-> "ok",
                                    v |-> from_utf8_lossy(Take(remaining,
                                                               take_till_nul(remaining)))]
                              [] kind = KStringArray ->
                                   parse_string_array(remaining, entry.num_items)
                              [] OTHER -> parse_i18n_string(remaining, entry.num_items)} })

RECURSIVE parse_index_entries(_, _, _)
\* the `for _ in 0..index_header.num_entries` loop of Header::parse: the
\* first n \div 2 turns of the loop, then the others on what they left.  Of
\* 2^31 turns or more the first 2^28 already run out of input and fail.
parse_index_entries(T, bytes, n) ==
    IF n = 0 THEN [st |-> "ok", entries |-> <<>>, rest |-> bytes]
    ELSE IF U32Huge(n) THEN parse_index_entries(T, bytes, TwoPow28)
    ELSE IF n = 1
    THEN The({ IF e.st # "ok" THEN e
               ELSE [st |-> "ok", entries |-> <<e.entry>>, rest |-> e.rest]
               : e \in {IndexEntry_parse(T, bytes)} })
    ELSE The({ IF first.st # "ok" THEN first
               ELSE The({ IF more.st # "ok" THEN more
                          ELSE [st |-> "ok", entries |-> first.entries \o more.entries,
                                rest |-> more.rest]
                          : more \in {parse_index_entries(T, first.rest, n - (n \div 2))} })
               : first \in {parse_index_entries(T, bytes, n \div 2)} })

RECURSIVE parse_all_entry_data(_, _)
\* the data loop over all entries: the first entry that fails decides (the
\* first half of the entries, then the second half)
parse_all_entry_data(store, entries) ==
    IF entries = <<>> THEN [st |-> "ok", entries |-> <<>>]
    ELSE IF Len(entries) = 1
    THEN The({ IF e.st # "ok" THEN e
               ELSE [st |-> "ok", entries |-> <<e.entry>>]
               : e \in {parse_entry_data(store, entries[1])} })
    ELSE The({ IF first.st # "ok" THEN first
               ELSE The({ IF more.st # "ok" THEN more
                          ELSE [st |-> "ok", entries |-> first.entries \o more.entries]
                          : more \in {parse_all_entry_data(
                                          store, Drop(entries, Len(entries) \div 2))} })
               : first \in {parse_all_entry_data(store, Take(entries, Len(entries) \div 2))} })

\* the u32 x counted in whole 16-byte units, and the bytes left over
Units16(x) == IF U32Huge(x) THEN (x \div 16) + TwoPow28 ELSE x \div 16

\* the length of the buffer Header::parse allocates: header_size + num_entries * 16
\* in u32 arithmetic.  A build with overflow checks aborts when it overflows
\* ("panic"); a build without them wraps modulo 2^32.  len is -1 for a length
\* of 2^31 or more, which no input of the model holds.
parse_buf_len(ih, overflow_checks) ==
    LET n == ih.num_entries
        hs == ih.header_size
        overflows == U32Huge(n) \/ n >= TwoPow28 \/ Units16(hs) + n >= TwoPow28
        units == (Units16(hs) + (n % TwoPow28)) % TwoPow28
    IN  IF overflow_checks /\ overflows THEN [st |-> "panic"]
        ELSE [st |-> "ok", wrapped |-> overflows,
              len |-> IF units >= TwoPow28 \div 2 THEN -1 ELSE units * 16 + (hs % 16)]

\* Header::parse on the input stream: the Result and the unread input
Header_parse(T, input, overflow_checks) ==
    IF Len(input) < 16 THEN [st |-> "err", error |-> "io", got |-> 0]
    ELSE The({
        IF ihr.st # "ok" THEN ihr
        ELSE The({
            IF bl.st # "ok" THEN [st |-> "panic"]
            ELSE IF bl.len < 0 \/ Len(input) - 16 < bl.len THEN [st |-> "err", error |-> "io", got |-> 0]
            ELSE The({
                IF es.st # "ok" THEN es
                ELSE IF Len(es.rest) # ihr.ih.header_size THEN [st |-> "panic"]
                ELSE The({
                    IF ds.st # "ok" THEN ds
                    ELSE [st |-> "ok",
                          header |-> [index_header |-> ihr.ih,
                                      index_entries |-> ds.entries,
                                      store |-> es.rest],
                          rest |-> Drop(input, 16 + bl.len)]
                    : ds \in {parse_all_entry_data(es.rest, es.entries)} })
                : es \in {parse_index_entries(T, SubSeq(input, 17, 16 + bl.len),
                                              ihr.ih.num_entries)} })
            : bl \in {parse_buf_len(ihr.ih, overflow_checks)} })
        : ihr \in {IndexHeader_parse(Take(input, 16))} })

\* Header::parse_signature: Header::parse, then 8 - header_size % 8 bytes are
\* read and discarded when header_size is no multiple of 8
parse_signature(input, overflow_checks) ==
    The({ IF r.st # "ok" THEN r
          ELSE LET pad == SignaturePad(r.header.index_header.header_size)
               IN  IF Len(r.rest) < pad THEN [st |-> "err", error |-> "io", got |-> 0]
                   ELSE [st |-> "ok", header |-> r.header, rest |-> Drop(r.rest, pad)]
          : r \in {Header_parse("sig", input, overflow_checks)} })

-----------------------------------------------------------------------------
(* Lead: the 96-byte record at the start of a package *)

LEAD_SIZE == 96

RPM_MAGIC == <<237, 171, 238, 219>>

\* struct Lead
MkLead(magic, major, minor, package_type, arch, name, os, signature_type, reserved) ==
    [magic |-> magic, major |-> major, minor |-> minor, package_type |-> package_type,
     arch |-> arch, name |-> name, os |-> os, signature_type |-> signature_type,
     reserved |-> reserved]

\* Lead::new: name_size is name.len() capped at 65 and the loop copies the
\* bytes of the range 0..name_size - 1.  For the empty name the usize
\* subtraction 0 - 1 aborts where overflow is checked, and where it wraps the
\* first iteration indexes the empty name.as_bytes(): a panic in both builds.
Lead_new(name) ==
    LET name_size == IF Len(name) > 65 THEN 65 ELSE Len(name)
    IN  IF name_size = 0 THEN [st |-> "panic"]
        ELSE [st |-> "ok",
              lead |-> MkLead(RPM_MAGIC, 3, 0, 0, 0,
                              [i \in 1..66 |-> IF i <= name_size - 1 THEN name[i] ELSE 0],
                              1, 5, Zeros(16))]

\* Lead::write: the nine fields in order, the u16 fields big-endian
Lead_write(l) ==
    l.magic \o <<l.major>> \o <<l.minor>> \o to_be_bytes(l.package_type, 2)
    \o to_be_bytes(l.arch, 2) \o l.name \o to_be_bytes(l.os, 2)
    \o to_be_bytes(l.signature_type, 2) \o l.reserved

\* a variant of FirstBadMagic that compares the first three bytes only
FirstBadMagic_ThreeBytes(magic) ==
    IF \E i \in 1..3 : magic[i] # RPM_MAGIC[i]
    THEN CHOOSE i \in 1..3 : /\ magic[i] # RPM_MAGIC[i]
                             /\ \A j \in 1..(i - 1) : magic[j] = RPM_MAGIC[j]
    ELSE 0

\* the first index at which the magic read differs from RPM_MAGIC, 0 if none
FirstBadMagic(magic) ==
    IF \E i \in 1..4 : magic[i] # RPM_MAGIC[i]
    THEN CHOOSE i \in 1..4 : /\ magic[i] # RPM_MAGIC[i]
                             /\ \A j \in 1..(i - 1) : magic[j] = RPM_MAGIC[j]
    ELSE 0

\* Lead::parse on a LEAD_SIZE buffer.  An error carries the field it is about
\* and the two numbers its message prints (the minor-version message prints
\* major and the signature-type message prints os, as the format! calls do).
Lead_parse(input) ==
    LET magic == SubSeq(input, 1, 4)
        bad == FirstBadMagic(magic)
        major == input[5]
        minor == input[6]
        pkg_type == be_uint(SubSeq(input, 7, 8))
        arch == be_uint(SubSeq(input, 9, 10))
        name == SubSeq(input, 11, 76)
        os == be_uint(SubSeq(input, 77, 78))
        sigtype == be_uint(SubSeq(input, 79, 80))
        rest == Drop(input, 80)
    IN  IF Len(input) < 4 THEN [st |-> "err", field |-> "input"]
        ELSE IF bad # 0
        THEN [st |-> "err", field |-> "magic", expected |-> RPM_MAGIC[bad], got |-> magic[bad]]
        ELSE IF Len(input) < 80 THEN [st |-> "err", field |-> "input"]
        ELSE IF major # 3 THEN [st |-> "err", field |-> "major", expected |-> 3, got |-> major]
        ELSE IF minor # 0 THEN [st |-> "err", field |-> "minor", expected |-> 0, got |-> major]
        ELSE IF pkg_type > 1
        THEN [st |-> "err", field |-> "type", expected |-> 1, got |-> pkg_type]
        ELSE IF os # 1 THEN [st |-> "err", field |-> "os", expected |-> 1, got |-> os]
        ELSE IF sigtype # 5
        THEN [st |-> "err", field |-> "signature_type", expected |-> 5, got |-> os]
        ELSE IF Len(rest) # 16
        THEN [st |-> "err", field |-> "reserved", expected |-> 16, got |-> Len(rest)]
        ELSE [st |-> "ok",
              lead |-> MkLead(magic, major, minor, pkg_type, arch, name, os, sigtype, rest)]

-----------------------------------------------------------------------------
(* The header scenario: a caller collects entries with IndexEntry::new,     *)
(* builds a header with Header::from_entries, writes it and parses the      *)
(* written bytes back (as tests::test_header does for a parsed header).     *)

\* the values the caller's entries are drawn from: every kind, arrays of one
\* and of several elements, a 5-byte Bin (so that integers meet an odd store)
ValuePool ==
    { Data(KNull, <<>>),
      Data(KChar, <<65>>),
      Data(KInt8, <<-1, 5>>),
      Data(KInt16, <<-2>>),
      Data(KInt16, <<258, 3>>),
      Data(KInt32, <<65543>>),
      Data(KInt64, <<-3>>),
      Data(KString, <<97, 98>>),
      Data(KString, <<>>),
      Data(KBin, <<1, 2, 3, 4, 5>>),
      Data(KStringArray, <<<<97>>, <<98, 99>>>>),
      Data(KStringArray, <<>>),
      Data(KI18NString, <<<<67>>>>),
      Data(KI18NString, <<<<97>>, <<98>>>>) }

TOf(region_tag) == IF region_tag = HEADER_SIGNATURES THEN "sig" ELSE "main"

\* the tag the caller gives an entry of the pool: one of the header's tag set
PoolTag(T, d) ==
    IF T = "sig" THEN <<1000, 1004, 269, 267, 268, 1002, 1005, 1007>>[(d.kind % 8) + 1]
    ELSE 1000 + d.kind

HeaderIdle ==
    /\ hpc = "idle" /\ region = 0 /\ records = <<>> /\ hdr = None
    /\ horigin = "none" /\ hbytes = <<>> /\ hparsed = None /\ hlookup = None
    /\ hregion = None

HeaderInit ==
    /\ hpc = "collect"
    /\ region \in {HEADER_SIGNATURES, HEADER_IMMUTABLE}
    /\ records = <<>>
    /\ hdr = None
    /\ horigin = "none"
    /\ hbytes = <<>>
    /\ hparsed = None
    /\ hlookup = None
    /\ hregion = None

\* the caller pushes IndexEntry::new(tag, 0, data) onto its vector
PushRecord ==
    /\ hpc = "collect"
    /\ Len(records) < MaxEntries
    /\ \E d \in ValuePool :
          records' = Append(records, IndexEntry_new(PoolTag(TOf(region), d), 0, d))
    /\ UNCHANGED <<hpc, region, hdr, horigin, hbytes, hparsed>>
    /\ UNCHANGED <<hlookup, hregion, lvars, pvars, bvars>>

\* Header::from_entries(records, region)
FromEntries ==
    /\ hpc = "collect"
    /\ hdr' = from_entries(records, region)
    /\ horigin' = "from_entries"
    /\ hpc' = "built"
    /\ UNCHANGED <<region, records, hbytes, hparsed>>
    /\ UNCHANGED <<hlookup, hregion, lvars, pvars, bvars>>

\* Header::write into an empty buffer
HeaderWrite ==
    /\ hpc = "built"
    /\ hbytes' = Header_write(hdr)
    /\ hpc' = "written"
    /\ UNCHANGED <<region, records, hdr, horigin, hparsed>>
    /\ UNCHANGED <<hlookup, hregion, lvars, pvars, bvars>>

\* Header::write_signature into an empty buffer (signature headers only)
HeaderWriteSignature ==
    /\ hpc = "built"
    /\ TOf(region) = "sig"
    /\ hbytes' = write_signature(hdr)
    /\ hpc' = "written_sig"
    /\ UNCHANGED <<region, records, hdr, horigin, hparsed>>
    /\ UNCHANGED <<hlookup, hregion, lvars, pvars, bvars>>

\* Header::parse on the written bytes
HeaderParse ==
    /\ hpc = "written"
    /\ \E oc \in BOOLEAN : hparsed' = Header_parse(TOf(region), hbytes, oc)
    /\ hpc' = "parsed"
    /\ UNCHANGED <<region, records, hdr, horigin, hbytes>>
    /\ UNCHANGED <<hlookup, hregion, lvars, pvars, bvars>>

\* Header::parse_signature on the written bytes
HeaderParseSignature ==
    /\ hpc = "written_sig"
    /\ \E oc \in BOOLEAN : hparsed' = parse_signature(hbytes, oc)
    /\ hpc' = "parsed_sig"
    /\ UNCHANGED <<region, records, hdr, horigin, hbytes>>
    /\ UNCHANGED <<hlookup, hregion, lvars, pvars, bvars>>

\* the caller keeps the header a successful parse returned and goes on to
\* write it (tests::test_header writes the headers of a parsed package)
KeepParsed ==
    /\ hpc \in {"parsed", "parsed_sig"}
    /\ horigin = "foreign"
    /\ hparsed.st = "ok"
    /\ hdr' = hparsed.header
    /\ horigin' = "parsed"
    /\ hpc' = "built"
    /\ hbytes' = <<>>
    /\ hparsed' = None
    /\ UNCHANGED <<region, records>>
    /\ UNCHANGED <<hlookup, hregion, lvars, pvars, bvars>>

\* the 16 bytes of one index record as they lie in a file
RawEntry(tag, type, offset, count) ==
    to_be_bytes(tag, 4) \o to_be_bytes(type, 4) \o to_be_bytes(offset, 4)
    \o to_be_bytes(count, 4)

\* the bytes of a header as they lie in a file
RawHeader(magic, version, reserved, n, hs, entries, store) ==
    magic \o <<version>> \o reserved \o to_be_bytes(n, 4) \o to_be_bytes(hs, 4)
    \o Flatten(entries) \o store

\* a well-formed region record for a header of n entries, and its entry
RegionBlob(tag, n) == RawEntry(tag, KBin, -16 * n, 16)

\* header bytes that did not come from Header::write: files written by other
\* tools, well-formed or not
ForeignHeaders(tag) ==
    { \* no entries at all
      RawHeader(HEADER_MAGIC, 1, Zeros(4), 0, 0, <<>>, <<>>),
      \* one Int32 entry and no region entry
      RawHeader(HEADER_MAGIC, 1, Zeros(4), 1, 4, <<RawEntry(1000, KInt32, 0, 1)>>,
                <<0, 0, 0, 7>>),
      \* third magic byte and reserved bytes differ from what write emits
      RawHeader(<<142, 173, 0>>, 1, <<1, 2, 3, 4>>, 1, 4,
                <<RawEntry(1000, KInt32, 0, 1)>>, <<0, 0, 0, 7>>),
      \* a region entry first, store of 21 bytes (no multiple of 8)
      RawHeader(HEADER_MAGIC, 1, Zeros(4), 2, 21,
                <<RawEntry(tag, KBin, 5, 16), RawEntry(1004, KBin, 0, 5)>>,
                <<1, 2, 3, 4, 5>> \o RegionBlob(tag, 2)),
      \* a region entry whose trailer points elsewhere
      RawHeader(HEADER_MAGIC, 1, Zeros(4), 1, 16, <<RawEntry(tag, KBin, 0, 16)>>,
                RegionBlob(tag, 2)),
      \* a negative offset
      RawHeader(HEADER_MAGIC, 1, Zeros(4), 1, 4, <<RawEntry(1000, KInt32, -1, 1)>>,
                <<0, 0, 0, 7>>),
      \* an offset beyond the store
      RawHeader(HEADER_MAGIC, 1, Zeros(4), 1, 4, <<RawEntry(1000, KInt32, 9, 1)>>,
                <<0, 0, 0, 7>>),
      \* count items reach past the end of the store
      RawHeader(HEADER_MAGIC, 1, Zeros(4), 1, 4, <<RawEntry(1000, KInt32, 0, 2)>>,
                <<0, 0, 0, 7>>),
      \* a string array element without terminator
      RawHeader(HEADER_MAGIC, 1, Zeros(4), 1, 1, <<RawEntry(1000, KStringArray, 0, 1)>>,
                <<97>>),
      \* a string without terminator
      RawHeader(HEADER_MAGIC, 1, Zeros(4), 1, 1, <<RawEntry(1000, KString, 0, 1)>>,
                <<97>>),
      \* an I18NString of two strings
      RawHeader(HEADER_MAGIC, 1, Zeros(4), 1, 4, <<RawEntry(1000, KI18NString, 0, 2)>>,
                <<97, 0, 98, 0>>),
      \* an unknown tag, an unknown type
      RawHeader(HEADER_MAGIC, 1, Zeros(4), 1, 4, <<RawEntry(999, KInt32, 0, 1)>>,
                <<0, 0, 0, 7>>),
      RawHeader(HEADER_MAGIC, 1, Zeros(4), 1, 4, <<RawEntry(1000, 10, 0, 1)>>,
                <<0, 0, 0, 7>>),
      \* a tag of the main header's enum only (DIRNAMES) in the second entry
      RawHeader(HEADER_MAGIC, 1, Zeros(4), 2, 4,
                <<RawEntry(1000, KInt32, 0, 1), RawEntry(1118, KInt32, 0, 1)>>,
                <<0, 0, 0, 7>>),
      \* an unknown tag and an offset beyond the store
      RawHeader(HEADER_MAGIC, 1, Zeros(4), 1, 4, <<RawEntry(999, KInt32, 9, 1)>>,
                <<0, 0, 0, 7>>),
      \* a wrong magic, a wrong version
      RawHeader(<<142, 0, 232>>, 1, Zeros(4), 0, 0, <<>>, <<>>),
      RawHeader(HEADER_MAGIC, 2, Zeros(4), 0, 0, <<>>, <<>>),
      \* the store ends before header_size bytes
      RawHeader(HEADER_MAGIC, 1, Zeros(4), 1, 8, <<RawEntry(1000, KInt32, 0, 1)>>,
                <<0, 0, 0, 7>>),
      \* num_entries 2^28 (sixteen times it is 2^32), header_size 4
      RawHeader(HEADER_MAGIC, 1, Zeros(4), TwoPow28, 4, <<>>, <<0, 0, 0, 7>>),
      \* num_entries 1, header_size 2^32 - 16
      RawHeader(HEADER_MAGIC, 1, Zeros(4), 1, -16, <<RawEntry(1000, KInt32, 0, 1)>>,
                <<>>) }

\* the bytes of a foreign header arrive instead of written ones; `hdr` stays
\* None: no in-memory header stands behind them
ForeignBytes ==
    /\ hpc = "collect"
    /\ records = <<>>
    /\ \E bs \in ForeignHeaders(region), tail \in {<<>>, Zeros(7), <<9, 9, 9, 9, 9, 9, 9>>} :
          hbytes' = bs \o tail
    /\ hpc' \in {"written"} \cup (IF TOf(region) = "sig" THEN {"written_sig"} ELSE {})
    /\ horigin' = "foreign"
    /\ UNCHANGED <<region, records, hdr, hparsed>>
    /\ UNCHANGED <<hlookup, hregion, lvars, pvars, bvars>>

\* the tags the caller looks up: the region tag, the tags the pool gives
\* its entries, and one no entry of the scenario carries
LookupTags(T) ==
    {PoolTag(T, d) : d \in ValuePool}
    \cup (IF T = "sig" THEN {HEADER_SIGNATURES, 1003} ELSE {HEADER_IMMUTABLE, 1118})

\* the caller looks a tag up in the header it holds with find_entry,
\* find_entry_or_err, get_entry_string_data and get_entry_string_array_data
HeaderLookup ==
    /\ hpc = "built"
    /\ \E tag \in LookupTags(TOf(region)) :
          hlookup' = [tag |-> tag,
                      find |-> find_entry(hdr, tag),
                      or_err |-> find_entry_or_err(hdr, tag),
                      str |-> get_entry_string_data(hdr, tag),
                      arr |-> get_entry_string_array_data(hdr, tag)]
    /\ hpc' = "looked"
    /\ UNCHANGED <<region, records, hdr, horigin, hbytes, hparsed>>
    /\ UNCHANGED <<hregion, lvars, pvars, bvars>>

\* the greatest of the small record counts create_region_tag is called with
MaxRecordsCount == 3

\* the record counts create_region_tag is called with: the small ones, the
\* last whose offset fits an i32 and the first whose offset does not
RecordCounts == (0..MaxRecordsCount) \cup {TwoPow27 - 1, TwoPow27}

\* the tags create_region_tag is called with
RegionTagInputs(T) ==
    IF T = "sig" THEN {HEADER_SIGNATURES, RPMSIGTAG_SIZE, RPMSIGTAG_SHA1}
    ELSE {HEADER_IMMUTABLE, 1000, 5096}

\* a caller builds a region entry with create_region_tag and parses its value
\* with IndexEntry::parse, as tests::test_region_tag does
RegionTag ==
    /\ hpc = "collect"
    /\ records = <<>>
    /\ \E tag \in RegionTagInputs(TOf(region)), records_count \in RecordCounts,
          offset \in {-16, 0, 400}, overflow_checks \in BOOLEAN :
          hregion' =
              IF overflow_checks /\ RegionTagOverflows(records_count)
              THEN [st |-> "panic", tag |-> tag, records_count |-> records_count,
                    offset |-> offset]
              ELSE [st |-> "ok", tag |-> tag, records_count |-> records_count,
                    offset |-> offset,
                    entry |-> create_region_tag(tag, records_count, offset),
                    parsed |-> IndexEntry_parse(
                        TOf(region), create_region_tag(tag, records_count, offset).data.v)]
    /\ hpc' = "region"
    /\ UNCHANGED <<region, records, hdr, horigin, hbytes, hparsed, hlookup>>
    /\ UNCHANGED <<lvars, pvars, bvars>>

HeaderNext ==
    \/ RegionTag
    \/ HeaderLookup
    \/ PushRecord
    \/ FromEntries
    \/ ForeignBytes
    \/ HeaderWrite
    \/ HeaderWriteSignature
    \/ HeaderParse
    \/ HeaderParseSignature
    \/ KeepParsed

LeadIdle == lpc = "idle" /\ lname = <<>> /\ lead = None /\ lbytes = <<>> /\ lparsed = None

ReaderIdle ==
    ppc = "idle" /\ pinput = <<>> /\ ppkg = None /\ pout = <<>> /\ preparsed = None

BuilderIdle == bpc = "idle" /\ builder = None /\ built = None /\ bcalls = 0 /\ bfiles = <<>>

InitHeader == HeaderInit /\ LeadIdle /\ ReaderIdle /\ BuilderIdle

SpecHeader == InitHeader /\ [][HeaderNext]_vars

-----------------------------------------------------------------------------
(* Properties of the header codec, checked under SpecHeader *)

HeaderParsed == hpc \in {"parsed", "parsed_sig"}

\* the entries after the first one agree with E in tag, kind, count and value
\* and with the offsets from_entries recorded
SameEntries(parsed, placed, E) ==
    /\ Len(parsed) = Len(E) + 1
    /\ \A i \in 1..Len(E) :
          /\ parsed[i + 1].tag = E[i].tag
          /\ parsed[i + 1].data.kind = E[i].data.kind
          /\ parsed[i + 1].num_items = E[i].num_items
          /\ parsed[i + 1].offset = placed[i + 1].offset
          /\ parsed[i + 1].data.v = E[i].data.v

\* C2: parsing the bytes written for a header built by from_entries from E
\* yields a header whose entries after the region entry equal E in tag, kind,
\* count, offset and value, for values of all nine kinds
C2_HeaderRoundTrip ==
    (HeaderParsed /\ horigin = "from_entries") =>
        /\ hparsed.st = "ok"
        /\ SameEntries(hparsed.header.index_entries, hdr.index_entries, records)

\* the region invariant of C7 for a header h
RegionTagInvariant(h) ==
    /\ Len(h.index_entries) >= 1
    /\ LET first == h.index_entries[1]
       IN  /\ first.tag \in {HEADER_IMMUTABLE, HEADER_SIGNATURES}
           /\ first.data.kind = KBin
           /\ first.num_items = 16
           /\ Len(first.data.v) = 16
           /\ be_int(SubSeq(first.data.v, 9, 12)) = -16 * h.index_header.num_entries

\* C7 as stated: every header Header::parse / parse_signature returns
\* satisfies the region invariant
C7_RegionTagOfEveryParsedHeader ==
    (HeaderParsed /\ hparsed.st = "ok") => RegionTagInvariant(hparsed.header)

\* C7 amended: every header parsed from the bytes written for a header that
\* from_entries built satisfies the region invariant
C7_RegionTagOfWrittenHeader ==
    (HeaderParsed /\ horigin = "from_entries") =>
        (hparsed.st = "ok" /\ RegionTagInvariant(hparsed.header))

C7_Witness ==
    /\ HeaderParsed /\ horigin = "from_entries" /\ Len(records) = 2
    /\ hparsed.st = "ok"
    /\ hparsed.header.index_header.num_entries = 3
    /\ be_int(SubSeq(hparsed.header.index_entries[1].data.v, 9, 12)) = -48

\* the end of the value of entry i of a built header (entry 1, the region
\* entry, is appended last), i.e. the store length before entry i + 1
EndOfPrevious(h, i) ==
    IF i = 2 THEN 0
    ELSE h.index_entries[i - 1].offset + byte_size(h.index_entries[i - 1].data)

\* C8: in a header built by from_entries every Int16/Int32/Int64 entry lies at
\* a multiple of 2/4/8, preceded by fewer than that many bytes of padding, all
\* zero; its offset is where its first value byte lies; an Int64 after a 5-byte
\* Bin gets 3 zero bytes and offset 8
C8_IntegerAlignment ==
    (horigin = "from_entries") =>
        \A i \in 2..Len(hdr.index_entries) :
            LET e == hdr.index_entries[i]
                w == ItemWidth(e.data.kind)
                before == EndOfPrevious(hdr, i)
            IN  e.data.kind \in IntKinds =>
                   /\ e.offset % w = 0
                   /\ e.offset - before \in 0..(w - 1)
                   /\ \A j \in (before + 1)..e.offset : hdr.store[j] = 0
                   /\ SubSeq(hdr.store, e.offset + 1, e.offset + byte_size(e.data))
                          = ValueBytes(e.data)
                   /\ (e.data.kind = KInt64 /\ before = 5) => e.offset = 8

C8_Witness ==
    /\ horigin = "from_entries"
    /\ Len(records) = 2
    /\ records[1].data = Data(KBin, <<1, 2, 3, 4, 5>>)
    /\ records[2].data.kind = KInt64
    /\ hdr.index_entries[3].offset = 8
    /\ SubSeq(hdr.store, 6, 8) = <<0, 0, 0>>

\* C9: what write_signature emits for a signature header (built or parsed) is
\* index header + entry table + store + padding, a multiple of 8 bytes long,
\* and the padding is zero
C9_SignatureAlignment ==
    (hpc = "written_sig" /\ horigin \in {"from_entries", "parsed"}) =>
        LET body == 16 + 16 * Len(hdr.index_entries) + Len(hdr.store)
        IN  /\ Len(hbytes) % 8 = 0
            /\ Len(hbytes) - body \in 0..7
            /\ SubSeq(hbytes, 17 + 16 * Len(hdr.index_entries), body) = hdr.store
            /\ \A j \in (body + 1)..Len(hbytes) : hbytes[j] = 0

C9_Witness ==
    /\ hpc = "written_sig" /\ horigin = "parsed"
    /\ Len(hdr.store) = 21
    /\ Len(hbytes) = 16 + 32 + 21 + 3

-----------------------------------------------------------------------------
(* RPMPackage / RPMPackageMetadata: lead, signature header, main header and *)
(* the payload bytes                                                        *)

\* RPMPackageMetadata::parse: read_exact of LEAD_SIZE bytes, Lead::parse,
\* Header::parse_signature, Header::parse; the metadata and the unread input.
\* The error of Lead::parse is returned as it is.
RPMPackageMetadata_parse(input, overflow_checks) ==
    IF Len(input) < LEAD_SIZE THEN [st |-> "err", error |-> "io", got |-> 0]
    ELSE The({
        IF l.st # "ok" THEN l
        ELSE The({
            IF sig.st # "ok" THEN sig
            ELSE The({
                IF h.st # "ok" THEN h
                ELSE [st |-> "ok",
                      metadata |-> [lead |-> l.lead, signature |-> sig.header,
                                    header |-> h.header],
                      rest |-> h.rest]
                : h \in {Header_parse("main", sig.rest, overflow_checks)} })
            : sig \in {parse_signature(Drop(input, LEAD_SIZE), overflow_checks)} })
        : l \in {Lead_parse(Take(input, LEAD_SIZE))} })

\* RPMPackageMetadata::write
RPMPackageMetadata_write(m) ==
    Lead_write(m.lead) \o write_signature(m.signature) \o Header_write(m.header)

\* RPMPackage::parse: the metadata, then read_to_end into content
RPMPackage_parse(input, overflow_checks) ==
    The({ IF m.st # "ok" THEN m
          ELSE [st |-> "ok", pkg |-> [metadata |-> m.metadata, content |-> m.rest]]
          : m \in {RPMPackageMetadata_parse(input, overflow_checks)} })

\* a variant of RPMPackage::write that leaves the payload out
RPMPackage_write_MetadataOnly(pkg) == RPMPackageMetadata_write(pkg.metadata)

\* RPMPackage::write
RPMPackage_write(pkg) == RPMPackageMetadata_write(pkg.metadata) \o pkg.content

-----------------------------------------------------------------------------
(* The lead scenario: Lead::new for a package name, Lead::write of the      *)
(* result, Lead::parse of written or foreign bytes.                         *)

\* a name of n bytes: letters starting at c, no NUL
NameOf(n, c) == [i \in 1..n |-> c + (i % 10)]

\* "test"
NameTest == <<116, 101, 115, 116>>

Names == {NameOf(n, c) : n \in 0..MaxNameLen, c \in {65, 97}} \cup {NameTest}

\* the bytes of a lead with the given fields, the name field holding 'n', 'm'
RawLead(magic, major, minor, pkg_type, arch, os, sigtype, reserved) ==
    magic \o <<major, minor>> \o to_be_bytes(pkg_type, 2) \o to_be_bytes(arch, 2)
    \o <<110, 109>> \o Zeros(64) \o to_be_bytes(os, 2) \o to_be_bytes(sigtype, 2)
    \o reserved

\* 96-byte leads this library did not write
ForeignLeads ==
    {RawLead(RPM_MAGIC, 3, 0, t, a, 1, 5, r) :
        t \in {0, 1}, a \in {0, 1, 258}, r \in {Zeros(16), [i \in 1..16 |-> i]}}
    \cup {RawLead([RPM_MAGIC EXCEPT ![i] = RPM_MAGIC[i] + 1], 3, 0, 0, 0, 1, 5, Zeros(16)) :
            i \in 1..4}
    \cup {RawLead(RPM_MAGIC, major, 0, 0, 0, 1, 5, Zeros(16)) : major \in {2, 4}}
    \cup {RawLead(RPM_MAGIC, 3, 1, 0, 0, 1, 5, Zeros(16))}
    \cup {RawLead(RPM_MAGIC, 3, 0, t, 0, 1, 5, Zeros(16)) : t \in {2, 256}}
    \cup {RawLead(RPM_MAGIC, 3, 0, 0, 0, os, 5, Zeros(16)) : os \in {0, 2, 256}}
    \cup {RawLead(RPM_MAGIC, 3, 0, 0, 0, 1, st, Zeros(16)) : st \in {0, 4, 1280}}

LeadNew ==
    /\ lpc = "idle"
    /\ \E name \in Names :
          /\ lname' = name
          /\ lead' = Lead_new(name)
    /\ lpc' = "new"
    /\ UNCHANGED <<lbytes, lparsed, hvars, pvars, bvars>>

LeadWrite ==
    /\ lpc = "new"
    /\ lead.st = "ok"
    /\ lbytes' = Lead_write(lead.lead)
    /\ lpc' = "written"
    /\ UNCHANGED <<lname, lead, lparsed, hvars, pvars, bvars>>

LeadForeign ==
    /\ lpc = "idle"
    /\ lbytes' \in ForeignLeads
    /\ lpc' = "written"
    /\ UNCHANGED <<lname, lead, lparsed, hvars, pvars, bvars>>

LeadParse ==
    /\ lpc = "written"
    /\ lparsed' = Lead_parse(lbytes)
    /\ lpc' = "parsed"
    /\ UNCHANGED <<lname, lead, lbytes, hvars, pvars, bvars>>

\* the parsed lead is written again
LeadWriteParsed ==
    /\ lpc = "parsed"
    /\ lparsed.st = "ok"
    /\ lead = None
    /\ lead' = lparsed
    /\ lbytes' = Lead_write(lparsed.lead)
    /\ lpc' = "rewritten"
    /\ UNCHANGED <<lname, lparsed, hvars, pvars, bvars>>

\* the rest of a package stream after the lead: nothing, or an empty
\* signature header, an empty main header and a payload of three bytes
AfterLead ==
    { <<>>,
      RawHeader(HEADER_MAGIC, 1, Zeros(4), 0, 0, <<>>, <<>>)
      \o RawHeader(HEADER_MAGIC, 1, Zeros(4), 0, 0, <<>>, <<>>) \o <<253, 55, 122>> }

\* RPMPackage::parse on a stream that starts with the 96 bytes in lbytes
LeadPackageParse ==
    /\ lpc = "parsed"
    /\ ppc = "idle"
    /\ \E tail \in AfterLead, oc \in BOOLEAN :
          /\ pinput' = lbytes \o tail
          /\ ppkg' = RPMPackage_parse(lbytes \o tail, oc)
    /\ ppc' = "parsed"
    /\ UNCHANGED <<pout, preparsed, lvars, hvars, bvars>>

LeadNext ==
    \/ LeadNew
    \/ LeadWrite
    \/ LeadForeign
    \/ LeadParse
    \/ LeadWriteParsed
    \/ LeadPackageParse

InitLead == LeadIdle /\ HeaderIdle /\ ReaderIdle /\ BuilderIdle

SpecLead == InitLead /\ [][LeadNext]_vars

-----------------------------------------------------------------------------
(* Properties of the lead, checked under SpecLead *)

\* C10: for every package name Lead::new returns a Lead with magic
\* ED AB EE DB, version (3,0), os 1, signature_type 5, 16 zero reserved bytes
\* and a 66-byte name field holding all the name's bytes (the first 65 of a
\* longer name) followed by NUL bytes, byte 65 being NUL
C10_LeadConstruction ==
    (lpc = "new") =>
        /\ lead.st = "ok"
        /\ lead.lead.magic = RPM_MAGIC
        /\ lead.lead.major = 3 /\ lead.lead.minor = 0
        /\ lead.lead.os = 1 /\ lead.lead.signature_type = 5
        /\ lead.lead.reserved = Zeros(16)
        /\ Len(lead.lead.name) = 66
        /\ LET kept == IF Len(lname) > 65 THEN 65 ELSE Len(lname)
           IN  /\ \A i \in 1..kept : lead.lead.name[i] = lname[i]
               /\ \A i \in (kept + 1)..66 : lead.lead.name[i] = 0

\* Lead::new("test") returned a lead whose name field reads "tes"
C10_Witness ==
    /\ lpc = "new" /\ lname = NameTest /\ lead.st = "ok"
    /\ SubSeq(lead.lead.name, 1, 4) = <<116, 101, 115, 0>>

-----------------------------------------------------------------------------
(* The reader scenario: a byte stream is parsed with RPMPackage::parse and  *)
(* the package is written back with RPMPackage::write.                      *)

\* a header this library wrote: from_entries over two entries
WrittenHeader(tag) ==
    Header_write(from_entries(
        <<IndexEntry_new(1000, 0, Data(KInt32, <<7>>)),
          IndexEntry_new(1004, 0, Data(KBin, <<1, 2, 3, 4, 5>>))>>, tag))

\* the header blobs of the streams: one this library wrote and foreign ones
\* (no entries; odd third magic byte and non-zero reserved bytes; a region
\* entry and a 21-byte store; an unknown tag; a store cut short; a string
\* array "a", "bc", an I18NString "a", "b" and a string holding the byte C8)
HeaderBlobs(tag) ==
    { WrittenHeader(tag),
      RawHeader(HEADER_MAGIC, 1, Zeros(4), 0, 0, <<>>, <<>>),
      RawHeader(<<142, 173, 0>>, 1, <<1, 2, 3, 4>>, 1, 4,
                <<RawEntry(1000, KInt32, 0, 1)>>, <<0, 0, 0, 7>>),
      RawHeader(HEADER_MAGIC, 1, Zeros(4), 2, 21,
                <<RawEntry(tag, KBin, 5, 16), RawEntry(1004, KBin, 0, 5)>>,
                <<1, 2, 3, 4, 5>> \o RegionBlob(tag, 2)),
      RawHeader(HEADER_MAGIC, 1, Zeros(4), 1, 4, <<RawEntry(999, KInt32, 0, 1)>>,
                <<0, 0, 0, 7>>),
      RawHeader(HEADER_MAGIC, 1, Zeros(4), 1, 8, <<RawEntry(1000, KInt32, 0, 1)>>,
                <<0, 0, 0, 7>>),
      RawHeader(HEADER_MAGIC, 1, Zeros(4), 3, 11,
                <<RawEntry(1002, KStringArray, 0, 2), RawEntry(1005, KI18NString, 5, 2),
                  RawEntry(1007, KString, 9, 1)>>,
                <<97, 0, 98, 99, 0, 97, 0, 98, 0, 200, 0>>) }

\* the padding a writer puts after a signature header blob, filled with `fill`
PadAfter(sig, fill) ==
    [i \in 1..SignaturePad(be_u32(SubSeq(sig, 13, 16))) |-> fill]

ReaderLeads ==
    {RawLead(RPM_MAGIC, 3, 0, 1, 258, 1, 5, [i \in 1..16 |-> i]),
     RawLead(RPM_MAGIC, 3, 1, 0, 0, 1, 5, Zeros(16))}

ReaderPayloads == {<<>>, <<253, 55, 122>>}

ReaderInputs ==
    {l \o sig \o PadAfter(sig, fill) \o main \o payload :
        l \in ReaderLeads, sig \in HeaderBlobs(HEADER_SIGNATURES), fill \in {0, 9},
        main \in HeaderBlobs(HEADER_IMMUTABLE), payload \in ReaderPayloads}
    \cup {Take(Lead_write(Lead_new(NameTest).lead), 50)}

ReaderInput ==
    /\ ppc = "idle"
    /\ bpc = "idle"
    /\ pinput' \in ReaderInputs
    /\ ppc' = "input"
    /\ UNCHANGED <<ppkg, pout, preparsed, hvars, lvars, bvars>>

ReaderParse ==
    /\ ppc = "input"
    /\ \E oc \in BOOLEAN : ppkg' = RPMPackage_parse(pinput, oc)
    /\ ppc' = "parsed"
    /\ UNCHANGED <<pinput, pout, preparsed, hvars, lvars, bvars>>

ReaderWrite ==
    /\ ppc = "parsed"
    /\ ppkg.st = "ok"
    /\ pout' = RPMPackage_write(ppkg.pkg)
    /\ ppc' = "written"
    /\ UNCHANGED <<pinput, ppkg, preparsed, hvars, lvars, bvars>>

\* the package pout was written for: the one RPMBuilder::build returned, or
\* the one RPMPackage::parse returned
WrittenPackage == IF bpc = "built" THEN built.pkg ELSE ppkg.pkg

\* the written bytes are parsed with RPMPackage::parse; the signature header
\* alone is written with write_signature and parsed with parse_signature (as
\* tests::test_header does)
ReaderReparse ==
    /\ ppc = "written"
    /\ \E oc \in BOOLEAN :
          preparsed' =
              [pkg |-> RPMPackage_parse(pout, oc),
               sig |-> parse_signature(
                           write_signature(WrittenPackage.metadata.signature), oc)]
    /\ ppc' = "reparsed"
    /\ UNCHANGED <<pinput, ppkg, pout, hvars, lvars, bvars>>

ReaderNext ==
    \/ ReaderInput
    \/ ReaderParse
    \/ ReaderWrite
    \/ ReaderReparse

InitReader == ReaderIdle /\ HeaderIdle /\ LeadIdle /\ BuilderIdle

SpecReader == InitReader /\ [][ReaderNext]_vars

-----------------------------------------------------------------------------
(* Properties of the package reader and writer, checked under SpecReader *)

\* where the parts of the parsed package lie in the stream it was parsed from
SigStart == LEAD_SIZE
SigBodyLen ==
    16 + 16 * Len(ppkg.pkg.metadata.signature.index_entries)
    + Len(ppkg.pkg.metadata.signature.store)
SigPadLen == SignaturePad(ppkg.pkg.metadata.signature.index_header.header_size)
MainStart == SigStart + SigBodyLen + SigPadLen

\* the positions (from 1) of the padding after the signature store
PadPositions == (SigStart + SigBodyLen + 1)..(SigStart + SigBodyLen + SigPadLen)

\* the positions of the four reserved bytes of the two index headers
ReservedPositions == ((SigStart + 5)..(SigStart + 8)) \cup ((MainStart + 5)..(MainStart + 8))

\* pout is pinput except at the positions of Z, where pout is zero
SameExceptZeroAt(Z) ==
    /\ Len(pout) = Len(pinput)
    /\ \A i \in 1..Len(pinput) : IF i \in Z THEN pout[i] = 0 ELSE pout[i] = pinput[i]

\* C1 as stated: for every stream RPMPackage::parse accepts, RPMPackage::write
\* emits the stream again, differing at most in the 0..7 padding bytes after
\* the signature store, which it emits as zero
C1_RoundTripModuloPadding ==
    (ppc = "written") => SameExceptZeroAt(PadPositions)

\* C1 amended: the written stream differs from the parsed one at most in the
\* padding after the signature store and in the four reserved bytes of the
\* two index headers, all of which are emitted as zero
C1_RoundTripModuloPaddingAndReserved ==
    (ppc = "written") => SameExceptZeroAt(PadPositions \cup ReservedPositions)

\* a stream with non-zero padding, non-zero reserved bytes, an odd third magic
\* byte and a payload was parsed and written back
C1_Witness ==
    /\ ppc = "written"
    /\ SigPadLen = 3
    /\ \E i \in PadPositions : pinput[i] # 0
    /\ \E i \in ReservedPositions : pinput[i] # 0
    /\ pinput[MainStart + 3] = 0
    /\ Len(ppkg.pkg.content) = 3
    /\ C1_RoundTripModuloPaddingAndReserved

-----------------------------------------------------------------------------
(* Strings, paths and the libraries RPMBuilder::build calls.  A String is   *)
(* its UTF-8 bytes; every path of the model is ASCII, holds no "//" and no  *)
(* "." or ".." component after the first one.  std::path, the cpio, lzma    *)
(* and digest crates are not part of src/: they are modelled by what their  *)
(* documentation states, the digests and the compression as fixed functions *)
(* of the bytes they are given.                                             *)

Slash == <<47>>

\* String::cmp: byte-wise lexicographic order
StrLess(a, b) ==
    \E i \in 1..(Len(a) + 1) :
        /\ i <= Len(b)
        /\ \A j \in 1..(i - 1) : a[j] = b[j]
        /\ (i > Len(a) \/ a[i] < b[i])

RECURSIVE SortedSeq(_)
\* the elements of a set of strings in ascending order: the iteration order
\* of a BTreeMap's keys, and Vec<String>::sort of distinct strings
SortedSeq(S) ==
    IF S = {} THEN <<>>
    ELSE The({ <<least>> \o SortedSeq(S \ {least})
               : least \in {x \in S : \A y \in S : x = y \/ StrLess(x, y)} })

RECURSIVE StripSlashes(_)
\* a path without the trailing separators std::path ignores
StripSlashes(p) ==
    IF Len(p) > 1 /\ p[Len(p)] = 47 THEN StripSlashes(Take(p, Len(p) - 1)) ELSE p

\* the position of the last "/" of q, 0 when it holds none
LastSlash(q) ==
    IF \E i \in 1..Len(q) : q[i] = 47
    THEN CHOOSE i \in 1..Len(q) : q[i] = 47 /\ \A j \in (i + 1)..Len(q) : q[j] # 47
    ELSE 0

\* Path::parent: None for "" and "/", else the path without its last component
Path_parent(p) ==
    The({ IF q = <<>> \/ q = Slash THEN None
          ELSE IF LastSlash(q) = 0 THEN [st |-> "some", v |-> <<>>]
          ELSE IF LastSlash(q) = 1 THEN [st |-> "some", v |-> Slash]
          ELSE [st |-> "some", v |-> Take(q, LastSlash(q) - 1)]
          : q \in {StripSlashes(p)} })

\* Path::file_name: the last component unless the path is "", "/", "." or
\* ends in ".."
Path_file_name(p) ==
    The({ IF q = <<>> \/ q = Slash THEN None
          ELSE IF Drop(q, LastSlash(q)) \in {<<46>>, <<46, 46>>} THEN None
          ELSE [st |-> "some", v |-> Drop(q, LastSlash(q))]
          : q \in {StripSlashes(p)} })

\* Path::starts_with("."): the first component is the current directory
Path_starts_with_dot(p) ==
    /\ Len(p) >= 1
    /\ p[1] = 46
    /\ (Len(p) = 1 \/ p[2] = 47)

\* Path::ends_with("/"): the last component is the root, i.e. the path is "/"
Path_ends_with_root(p) == p # <<>> /\ \A i \in 1..Len(p) : p[i] = 47

\* one lower-case hexadecimal digit
HexDigit(n) == IF n < 10 THEN 48 + n ELSE 87 + n

\* format!("{:x}") of a digest: two digits per byte
HexOfBytes(bs) ==
    [k \in 1..(2 * Len(bs)) |->
        HexDigit(IF k % 2 = 1 THEN bs[(k + 1) \div 2] \div 16 ELSE bs[k \div 2] % 16)]

\* format!("{:08x}") of a non-negative number below 2^31
Hex8(n) == [i \in 1..8 |-> HexDigit((n \div (16 ^ (8 - i))) % 16)]

RECURSIVE WeightedSum(_, _, _, _)
\* sum of bs[j] * (1 + ((j + w) % 251)) for j in lo..hi
WeightedSum(bs, w, lo, hi) ==
    IF lo > hi THEN 0
    ELSE IF lo = hi THEN bs[lo] * (1 + ((lo + w) % 251))
    ELSE WeightedSum(bs, w, lo, (lo + hi) \div 2)
         + WeightedSum(bs, w, (lo + hi) \div 2 + 1, hi)

\* a digest of n bytes: a fixed function of the byte sequence and of the
\* algorithm (salt), standing for MD5, SHA-1 and SHA-256
Digest(bs, n, salt) ==
    The({ [i \in 1..n |-> (a * i + b * (i + salt) + Len(bs) + 31 * salt) % 256]
          : a \in {WeightedSum(bs, 0, 1, Len(bs)) % 65536},
            b \in {WeightedSum(bs, salt, 1, Len(bs)) % 65536} })

Md5(bs) == Digest(bs, 16, 1)
Sha1(bs) == Digest(bs, 20, 2)
Sha256(bs) == Digest(bs, 32, 3)

\* zero bytes up to the next multiple of 4
Pad4(len) == Zeros((4 - (len % 4)) % 4)

\* cpio::newc::Builder::new(name).mode(..).ino(..).uid(..).gid(..).write(w, size):
\* the newc header (nlink 1, mtime 0, devices 0), the name, its NUL, padding
cpio_header(name, ino, mode, uid, gid, file_size) ==
    <<48, 55, 48, 55, 48, 49>> \o Hex8(ino) \o Hex8(mode) \o Hex8(uid) \o Hex8(gid)
    \o Hex8(1) \o Hex8(0) \o Hex8(file_size) \o Hex8(0) \o Hex8(0) \o Hex8(0) \o Hex8(0)
    \o Hex8(Len(name) + 1) \o Hex8(0) \o name \o <<0>> \o Pad4(110 + Len(name) + 1)

\* cpio::newc::trailer: the entry named TRAILER!!! with no data
cpio_trailer ==
    cpio_header(<<84, 82, 65, 73, 76, 69, 82, 33, 33, 33>>, 0, 0, 0, 0, 0)

\* what LzmaWriter has put into `out` once finish() returned, for the bytes
\* written to it: stream magic, the encoded bytes, stream footer
xz_finish(written) ==
    <<253, 55, 122, 88, 90, 0>> \o [i \in 1..Len(written) |-> (written[i] + 1) % 256]
    \o <<89, 90>>

-----------------------------------------------------------------------------
(* RPMBuilder *)

\* the discriminants of the IndexTag members new_header uses
RPMTAG ==
    [HEADERI18NTABLE |-> 100, NAME |-> 1000, VERSION |-> 1001, RELEASE |-> 1002,
     SUMMARY |-> 1004, DESCRIPTION |-> 1005, SIZE |-> 1009, LICENSE |-> 1014,
     GROUP |-> 1016, OS |-> 1021, ARCH |-> 1022, FILESIZES |-> 1028,
     FILEMODES |-> 1030, FILERDEVS |-> 1033, FILEMTIMES |-> 1034,
     FILEDIGESTS |-> 1035, FILELINKTOS |-> 1036, FILEFLAGS |-> 1037,
     FILEUSERNAME |-> 1039, FILEGROUPNAME |-> 1040, FILEVERIFYFLAGS |-> 1045,
     PROVIDENAME |-> 1047, REQUIREFLAGS |-> 1048, REQUIRENAME |-> 1049,
     REQUIREVERSION |-> 1050, CONFLICTFLAGS |-> 1053, CONFLICTNAME |-> 1054,
     CONFLICTVERSION |-> 1055, OBSOLETENAME |-> 1090, FILEDEVICES |-> 1095,
     FILEINODES |-> 1096, FILELANGS |-> 1097, PROVIDEFLAGS |-> 1112,
     PROVIDEVERSION |-> 1113, OBSOLETEFLAGS |-> 1114, OBSOLETEVERSION |-> 1115,
     DIRINDEXES |-> 1116, BASENAMES |-> 1117, DIRNAMES |-> 1118,
     PAYLOADFORMAT |-> 1124, PAYLOADCOMPRESSOR |-> 1125, PAYLOADFLAGS |-> 1126,
     FILEDIGESTALGO |-> 5011]

\* the RPMSENSE_ constants the Dependency constructors use
RPMSENSE == [ANY |-> 0, LESS |-> 2, GREATER |-> 4, EQUAL |-> 8]

\* Dependency::new
Dependency(dep_name, sense, version) ==
    [dep_name |-> dep_name, sense |-> sense, version |-> version]

\* a variant of Dependency::eq with the sense RPMSENSE_LESS
Dependency_eq_Less(dep_name, version) == Dependency(dep_name, RPMSENSE.LESS, version)

\* Dependency::eq
Dependency_eq(dep_name, version) == Dependency(dep_name, RPMSENSE.EQUAL, version)

\* Dependency::any
Dependency_any(dep_name) == Dependency(dep_name, RPMSENSE.ANY, <<>>)

\* BTreeMap::insert: a map is a function on its keys
MapInsert(m, k, v) == [x \in (DOMAIN m) \cup {k} |-> IF x = k THEN v ELSE m[x]]

\* RPMBuilder::new
RPMBuilder_new(name, version, license, arch, desc) ==
    [name |-> name, version |-> version, license |-> license, arch |-> arch,
     uid |-> None, gid |-> None, desc |-> desc, release |-> <<49>>,
     file_content |-> [k \in {} |-> 0], byte_content |-> [k \in {} |-> 0],
     requires |-> <<>>, obsoletes |-> <<>>, provides |-> <<>>, conflicts |-> <<>>]

\* Option::unwrap_or(0) for uid and gid
unwrap_or_0(o) == IF o = None THEN 0 ELSE o.v

\* the files std::fs::File::open finds: source path -> content, st_mode, mtime
FileSystem ==
    [a |-> [content |-> <<104, 105>>, mode |-> 33188, mtime |-> 1500000000],
     b |-> [content |-> <<1, 2, 3, 4, 5>>, mode |-> 33261, mtime |-> 7]]

\* a variant of with_file that keeps what the destination already holds
with_file_KeepsFirst(b, source, dest) ==
    IF source \notin DOMAIN FileSystem THEN [st |-> "err"]
    ELSE [st |-> "ok",
          builder |-> IF dest \in DOMAIN b.file_content THEN b
                      ELSE [b EXCEPT !.file_content = MapInsert(b.file_content, dest, source)]]

\* RPMBuilder::with_file: Err (and the builder is gone) when the source cannot
\* be opened, else the opened file replaces what the destination held
with_file(b, source, dest) ==
    IF source \notin DOMAIN FileSystem THEN [st |-> "err"]
    ELSE [st |-> "ok",
          builder |-> [b EXCEPT !.file_content = MapInsert(b.file_content, dest, source)]]

\* RPMBuilder::with_content
with_content(b, content, dest) ==
    [st |-> "ok",
     builder |-> [b EXCEPT !.byte_content = MapInsert(b.byte_content, dest, content)]]

\* append_dir_entry: the directories after the call (it always returns Ok)
append_dir_entry(raw_path, directories) ==
    The({ IF parent = None THEN directories
          ELSE IF parent.v = Slash THEN directories
          ELSE IF \E i \in 1..Len(directories) : directories[i] = parent.v \o Slash
               THEN directories
               ELSE Append(directories, parent.v \o Slash)
          : parent \in {Path_parent(
                IF Path_starts_with_dot(raw_path)
                THEN (IF ~Path_ends_with_root(raw_path) THEN Drop(raw_path, 1) \o Slash
                      ELSE Drop(raw_path, 1))
                ELSE (IF ~Path_ends_with_root(raw_path) THEN raw_path \o Slash
                      ELSE raw_path))} })

RECURSIVE DirLoop(_, _)
\* the first loop of build: append_dir_entry for every destination in key order
DirLoop(dests, directories) ==
    IF dests = <<>> THEN directories
    ELSE DirLoop(Tail(dests), append_dir_entry(Head(dests), directories))

\* u32 / u64 `as i16`
as_i16(x) == ((x + 32768) % 65536) - 32768

\* a variant of position that counts from 1
position_FromOne(directories, wanted) ==
    IF \E i \in 1..Len(directories) : directories[i] = wanted
    THEN [st |-> "some",
          v |-> CHOOSE i \in 1..Len(directories) :
                    /\ directories[i] = wanted
                    /\ \A j \in 1..(i - 1) : directories[j] # wanted]
    ELSE None

\* iter().position(|item| item == wanted): the first index from 0, or None
position(directories, wanted) ==
    IF \E i \in 1..Len(directories) : directories[i] = wanted
    THEN [st |-> "some",
          v |-> (CHOOSE i \in 1..Len(directories) :
                    /\ directories[i] = wanted
                    /\ \A j \in 1..(i - 1) : directories[j] # wanted) - 1]
    ELSE None

\* the body of the second loop of build for the destination dest: the cpio
\* header and the content go to the compressor first; then the directory
\* index is looked up and the file entry pushed; then writer.finish() pads.
\* acc: written (bytes given to the compressor), cpio (the records written),
\* entries (rpm_file_entries), ino (ino_index), events
FileStep(b, dest, directories, acc) ==
    The({
        IF parent = None
        THEN [st |-> "err", error |-> "root path can not be added", acc |-> wr]
        ELSE IF idx = None
        THEN [st |-> "err", error |-> "unable to find directory", acc |-> wr]
        ELSE IF base = None
        THEN [st |-> "err", error |-> "invalid file name", acc |-> wr]
        ELSE [st |-> "ok",
              acc |-> [written |-> wr.written \o Pad4(Len(f.content)),
                       cpio |-> wr.cpio,
                       entries |-> Append(acc.entries,
                           [size |-> Len(f.content), mode |-> as_i16(f.mode),
                            file_device |-> 1, file_rdevice |-> 0, inode |-> acc.ino,
                            modified_at |-> f.mtime,
                            md5_checksum |-> HexOfBytes(Sha256(f.content)),
                            link |-> <<>>, flag |-> 0,
                            user |-> <<114, 111, 111, 116>>,
                            group |-> <<114, 111, 111, 116>>, lang |-> <<>>,
                            dir_index |-> idx.v, base_name |-> base.v]),
                       ino |-> acc.ino + 1,
                       events |-> Append(wr.events, "file_finish")]]
        : parent \in {Path_parent(dest)},
          base \in {Path_file_name(dest)},
          idx \in {IF Path_parent(dest) = None THEN None
                   ELSE position(directories, Drop(Path_parent(dest).v \o Slash, 1))},
          f \in {FileSystem[b.file_content[dest]]},
          wr \in {[acc EXCEPT
                    !.written = @ \o cpio_header(dest, acc.ino,
                                                 FileSystem[b.file_content[dest]].mode,
                                                 unwrap_or_0(b.uid), unwrap_or_0(b.gid),
                                                 Len(FileSystem[b.file_content[dest]].content))
                                  \o FileSystem[b.file_content[dest]].content,
                    !.cpio = Append(@, [name |-> dest, ino |-> acc.ino,
                                        mode |-> FileSystem[b.file_content[dest]].mode,
                                        data |-> FileSystem[b.file_content[dest]].content]),
                    !.events = Append(@, "file_write")]} })

RECURSIVE FileLoop_SkipsFailed(_, _, _, _)
\* a variant of FileLoop that goes on with the next destination after an error
FileLoop_SkipsFailed(b, dests, directories, acc) ==
    IF dests = <<>> THEN [st |-> "ok", acc |-> acc]
    ELSE The({ FileLoop_SkipsFailed(b, Tail(dests), directories, step.acc)
               : step \in {FileStep(b, Head(dests), directories, acc)} })

RECURSIVE FileLoop(_, _, _, _)
\* the second loop of build over the destinations in key order; the first
\* error ends it
FileLoop(b, dests, directories, acc) ==
    IF dests = <<>> THEN [st |-> "ok", acc |-> acc]
    ELSE The({ IF step.st # "ok" THEN step
               ELSE FileLoop(b, Tail(dests), directories, step.acc)
               : step \in {FileStep(b, Head(dests), directories, acc)} })

\* a variant of Column that leaves out the first element
Column_SkipFirst(xs, f) == [i \in 1..(Len(xs) - 1) |-> xs[i + 1][f]]

\* a variant of Column that takes the elements last to first
Column_Reversed(xs, f) == [i \in 1..Len(xs) |-> xs[Len(xs) + 1 - i][f]]

\* the field f of every element, in order (the pushes of the loops of new_header)
Column(xs, f) == [i \in 1..Len(xs) |-> xs[i][f]]

\* a variant of combined_file_sizes that keeps the size of the last entry
combined_file_sizes_Last(entries) ==
    IF entries = <<>> THEN 0 ELSE entries[Len(entries)].size

\* combined_file_sizes of new_header: 0, then += entry.size for every entry
combined_file_sizes(entries) == SumSeq(Column(entries, "size"))

\* Header::new_header: one vector per RPMFileEntry field, three per dependency
\* list, the fixed record list, the obsoletes / requires / conflicts records
\* only when there are any, then from_entries under RPMTAG_HEADERIMMUTABLE
new_header(name, version, release, desc, summary, arch, license, entries, directories, requires, provides, obsoletes, conflicts) ==
    from_entries(
        << IndexEntry_new(RPMTAG.HEADERI18NTABLE, 0, Data(KString, <<67>>)),
           IndexEntry_new(RPMTAG.NAME, 0, Data(KString, name)),
           IndexEntry_new(RPMTAG.VERSION, 0, Data(KString, version)),
           IndexEntry_new(RPMTAG.RELEASE, 0, Data(KString, release)),
           IndexEntry_new(RPMTAG.DESCRIPTION, 0, Data(KString, desc)),
           IndexEntry_new(RPMTAG.SUMMARY, 0, Data(KString, summary)),
           IndexEntry_new(RPMTAG.SIZE, 0, Data(KInt32, <<combined_file_sizes(entries)>>)),
           IndexEntry_new(RPMTAG.LICENSE, 0, Data(KString, license)),
           IndexEntry_new(RPMTAG.OS, 0, Data(KString, <<108, 105, 110, 117, 120>>)),
           IndexEntry_new(RPMTAG.GROUP, 0,
               Data(KI18NString, << <<85, 110, 115, 112, 101, 99, 105, 102, 105, 101, 100>> >>)),
           IndexEntry_new(RPMTAG.ARCH, 0, Data(KString, arch)),
           IndexEntry_new(RPMTAG.PAYLOADFORMAT, 0, Data(KString, <<99, 112, 105, 111>>)),
           IndexEntry_new(RPMTAG.PAYLOADCOMPRESSOR, 0, Data(KString, <<120, 122>>)),
           IndexEntry_new(RPMTAG.PAYLOADFLAGS, 0, Data(KString, <<50>>)),
           IndexEntry_new(RPMTAG.FILESIZES, 0, Data(KInt32, Column(entries, "size"))),
           IndexEntry_new(RPMTAG.FILEMODES, 0, Data(KInt16, Column(entries, "mode"))),
           IndexEntry_new(RPMTAG.FILERDEVS, 0, Data(KInt16, Column(entries, "file_rdevice"))),
           IndexEntry_new(RPMTAG.FILEMTIMES, 0, Data(KInt32, Column(entries, "modified_at"))),
           IndexEntry_new(RPMTAG.FILEDIGESTS, 0, Data(KStringArray, Column(entries, "md5_checksum"))),
           IndexEntry_new(RPMTAG.FILELINKTOS, 0, Data(KStringArray, Column(entries, "link"))),
           IndexEntry_new(RPMTAG.FILEFLAGS, 0, Data(KInt32, Column(entries, "flag"))),
           IndexEntry_new(RPMTAG.FILEUSERNAME, 0, Data(KStringArray, Column(entries, "user"))),
           IndexEntry_new(RPMTAG.FILEGROUPNAME, 0, Data(KStringArray, Column(entries, "group"))),
           IndexEntry_new(RPMTAG.FILEDEVICES, 0, Data(KInt32, Column(entries, "file_device"))),
           IndexEntry_new(RPMTAG.FILEINODES, 0, Data(KInt32, Column(entries, "inode"))),
           IndexEntry_new(RPMTAG.DIRINDEXES, 0, Data(KInt32, Column(entries, "dir_index"))),
           IndexEntry_new(RPMTAG.FILELANGS, 0, Data(KStringArray, Column(entries, "lang"))),
           IndexEntry_new(RPMTAG.FILEDIGESTALGO, 0, Data(KInt32, <<8>>)),
           IndexEntry_new(RPMTAG.FILEVERIFYFLAGS, 0,
               Data(KInt32, [i \in 1..Len(entries) |-> -1])),
           IndexEntry_new(RPMTAG.BASENAMES, 0, Data(KStringArray, Column(entries, "base_name"))),
           IndexEntry_new(RPMTAG.DIRNAMES, 0, Data(KStringArray, directories)),
           IndexEntry_new(RPMTAG.PROVIDENAME, 0, Data(KStringArray, Column(provides, "dep_name"))),
           IndexEntry_new(RPMTAG.PROVIDEVERSION, 0, Data(KStringArray, Column(provides, "version"))),
           IndexEntry_new(RPMTAG.PROVIDEFLAGS, 0, Data(KInt32, Column(provides, "sense"))) >>
        \o (IF obsoletes = <<>> THEN <<>>
            ELSE << IndexEntry_new(RPMTAG.OBSOLETENAME, 0,
                        Data(KStringArray, Column(obsoletes, "dep_name"))),
                    IndexEntry_new(RPMTAG.OBSOLETEVERSION, 0,
                        Data(KStringArray, Column(obsoletes, "version"))),
                    IndexEntry_new(RPMTAG.OBSOLETEFLAGS, 0,
                        Data(KInt32, Column(obsoletes, "sense"))) >>)
        \o (IF requires = <<>> THEN <<>>
            ELSE << IndexEntry_new(RPMTAG.REQUIRENAME, 0,
                        Data(KStringArray, Column(requires, "dep_name"))),
                    IndexEntry_new(RPMTAG.REQUIREVERSION, 0,
                        Data(KStringArray, Column(requires, "version"))),
                    IndexEntry_new(RPMTAG.REQUIREFLAGS, 0,
                        Data(KInt32, Column(requires, "sense"))) >>)
        \o (IF conflicts = <<>> THEN <<>>
            ELSE << IndexEntry_new(RPMTAG.CONFLICTNAME, 0,
                        Data(KStringArray, Column(conflicts, "dep_name"))),
                    IndexEntry_new(RPMTAG.CONFLICTVERSION, 0,
                        Data(KStringArray, Column(conflicts, "version"))),
                    IndexEntry_new(RPMTAG.CONFLICTFLAGS, 0,
                        Data(KInt32, Column(conflicts, "sense"))) >>),
        HEADER_IMMUTABLE)

\* Header::new_signature_header
new_signature_header(size, md5, sha1) ==
    from_entries(<< IndexEntry_new(RPMSIGTAG_SIZE, 0, Data(KInt32, <<size>>)),
                    IndexEntry_new(RPMSIGTAG_MD5, 0, Data(KBin, md5)),
                    IndexEntry_new(RPMSIGTAG_SHA1, 0, Data(KString, sha1)) >>,
                 HEADER_SIGNATURES)

\* a variant of Sha1Input that covers the payload as well
Sha1Input_WithPayload(header_bytes, out) == header_bytes \o out

\* the bytes the signature of build covers with the SHA1 digest
Sha1Input(header_bytes, out) == header_bytes

\* a variant of FinishEvents that ends the compression before the trailer
FinishEvents_TrailerAfterFinish == <<"finish_compression", "trailer", "signature">>

\* what build does with the compressor and its output once the header is
\* written: cpio::newc::trailer, finish_compression, then the signature
FinishEvents == <<"trailer", "finish_compression", "signature">>

\* the end of build once the file loop is through: the implicit dependencies,
\* the header and its bytes, the trailer, the end of the compression, the
\* signature over the header bytes and the compressed payload, the package
BuildFinish(b, the_lead, directories, acc) ==
    The({ The({ The({
        [st |-> "ok",
         pkg |-> [metadata |->
                     [lead |-> the_lead,
                      signature |-> new_signature_header(
                          Len(header_bytes) + Len(out),
                          Md5(header_bytes \o out),
                          HexOfBytes(Sha1(Sha1Input(header_bytes, out)))),
                      header |-> header],
                  content |-> out],
         header_bytes |-> header_bytes,
         cpio |-> acc.cpio,
         events |-> acc.events \o FinishEvents]
        : out \in {xz_finish(acc.written \o cpio_trailer)} })
        : header_bytes \in {Header_write(header)} })
        : header \in {new_header(
              b.name, b.version, b.release, b.desc, b.desc, b.arch, b.license,
              acc.entries, directories,
              Append(b.requires, Dependency_any(<<47, 98, 105, 110, 47, 115, 104>>)),
              b.provides \o << Dependency_eq(b.name, b.version),
                               Dependency_eq(b.name \o <<40>> \o b.arch \o <<41>>,
                                             b.version) >>,
              b.obsoletes, b.conflicts)} })

\* RPMBuilder::build.  Lead::new comes first (and panics on the empty name);
\* a file whose directory is not found ends the build with Err after its cpio
\* header and content went to the compressor, which is then never finished.
\* Only file_content is iterated.
build(b) ==
    The({ IF the_lead.st # "ok" THEN [st |-> "panic", cpio |-> <<>>, events |-> <<>>]
          ELSE The({ The({
                  IF loop.st # "ok"
                  THEN [st |-> "err", error |-> loop.error, cpio |-> loop.acc.cpio,
                        events |-> loop.acc.events]
                  ELSE BuildFinish(b, the_lead.lead, directories, loop.acc)
                  : loop \in {FileLoop(b, dests, directories,
                                       [written |-> <<>>, cpio |-> <<>>, entries |-> <<>>,
                                        ino |-> 1, events |-> <<>>])} })
               : directories \in {SortedSeq(Range(DirLoop(dests, <<>>)))} })
          : the_lead \in {Lead_new(b.name)},
            dests \in {SortedSeq(DOMAIN b.file_content)} })

-----------------------------------------------------------------------------
(* The builder scenario: RPMBuilder::new, then up to MaxCalls of with_file, *)
(* with_content, requires, provides, obsoletes, conflicts, then build.      *)

\* the destinations files are added under: "./etc/x", "./etc/foo/y",
\* "./var/x", "./x", "/etc/x", "etc/x", "./etc/x/", "a/etc/x", "/",
\* "./etc/.."
FileDests ==
    { <<46, 47, 101, 116, 99, 47, 120>>,
      <<46, 47, 101, 116, 99, 47, 102, 111, 111, 47, 121>>,
      <<46, 47, 118, 97, 114, 47, 120>>,
      <<46, 47, 120>>,
      <<47, 101, 116, 99, 47, 120>>,
      <<101, 116, 99, 47, 120>>,
      <<46, 47, 101, 116, 99, 47, 120, 47>>,
      <<97, 47, 101, 116, 99, 47, 120>>,
      <<47>>,
      <<46, 47, 101, 116, 99, 47, 46, 46>> }

\* the destinations in-memory content is added under: "./etc/c", "./etc/x"
ContentDests == { <<46, 47, 101, 116, 99, 47, 99>>, <<46, 47, 101, 116, 99, 47, 120>> }

\* the source paths given to with_file; "missing" cannot be opened
Sources == {"a", "b", "missing"}

\* the package names given to RPMBuilder::new: "test" and ""
BuilderNames == {<<116, 101, 115, 116>>, <<>>}

\* the dependencies the callers declare: Dependency::eq("a", "1") and
\* Dependency::less("b", "2")
Deps == {Dependency_eq(<<97>>, <<49>>), Dependency(<<98>>, RPMSENSE.LESS, <<50>>)}

\* RPMBuilder::new(name, "1.0.0", "MIT", "x86_64", "desc")
BuilderNew ==
    /\ bpc = "idle"
    /\ ppc = "idle"
    /\ \E name \in BuilderNames :
          builder' = RPMBuilder_new(name, <<49, 46, 48, 46, 48>>, <<77, 73, 84>>,
                                    <<120, 56, 54, 95, 54, 52>>, <<100, 101, 115, 99>>)
    /\ bpc' = "building"
    /\ UNCHANGED <<built, bcalls, bfiles, hvars, lvars, pvars>>

\* builder = builder.with_file(source, dest)?
WithFile ==
    /\ bpc = "building"
    /\ bcalls < MaxCalls
    /\ \E source \in Sources, dest \in FileDests :
          IF with_file(builder, source, dest).st = "ok"
          THEN /\ builder' = with_file(builder, source, dest).builder
               /\ bpc' = "building"
               /\ bfiles' = Append(bfiles, [source |-> source, dest |-> dest])
          ELSE builder' = None /\ bpc' = "failed" /\ bfiles' = bfiles
    /\ bcalls' = bcalls + 1
    /\ UNCHANGED <<built, hvars, lvars, pvars>>

\* builder = builder.with_content(vec![9, 9], dest)?
WithContent ==
    /\ bpc = "building"
    /\ bcalls < MaxCalls
    /\ \E dest \in ContentDests :
          builder' = with_content(builder, <<9, 9>>, dest).builder
    /\ bcalls' = bcalls + 1
    /\ UNCHANGED <<bpc, built, bfiles, hvars, lvars, pvars>>

\* builder = builder.requires(dep)
Requires ==
    /\ bpc = "building"
    /\ bcalls < MaxCalls
    /\ \E dep \in Deps : builder' = [builder EXCEPT !.requires = Append(@, dep)]
    /\ bcalls' = bcalls + 1
    /\ UNCHANGED <<bpc, built, bfiles, hvars, lvars, pvars>>

\* builder = builder.obsoletes(dep)
Obsoletes ==
    /\ bpc = "building"
    /\ bcalls < MaxCalls
    /\ \E dep \in Deps : builder' = [builder EXCEPT !.obsoletes = Append(@, dep)]
    /\ bcalls' = bcalls + 1
    /\ UNCHANGED <<bpc, built, bfiles, hvars, lvars, pvars>>

\* builder = builder.conflicts(dep)
Conflicts ==
    /\ bpc = "building"
    /\ bcalls < MaxCalls
    /\ \E dep \in Deps : builder' = [builder EXCEPT !.conflicts = Append(@, dep)]
    /\ bcalls' = bcalls + 1
    /\ UNCHANGED <<bpc, built, bfiles, hvars, lvars, pvars>>

\* builder = builder.provides(dep)
Provides ==
    /\ bpc = "building"
    /\ bcalls < MaxCalls
    /\ \E dep \in Deps : builder' = [builder EXCEPT !.provides = Append(@, dep)]
    /\ bcalls' = bcalls + 1
    /\ UNCHANGED <<bpc, built, bfiles, hvars, lvars, pvars>>

\* builder.build(); `builder` keeps the value build consumed
Build ==
    /\ bpc = "building"
    /\ built' = build(builder)
    /\ bpc' = "built"
    /\ UNCHANGED <<builder, bcalls, bfiles, hvars, lvars, pvars>>

\* pkg.write(&mut f) on the package build returned (tests::test_builder)
BuiltWrite ==
    /\ bpc = "built"
    /\ built.st = "ok"
    /\ ppc = "idle"
    /\ pout' = RPMPackage_write(built.pkg)
    /\ ppc' = "written"
    /\ UNCHANGED <<pinput, ppkg, preparsed, hvars, lvars, bvars>>

BuilderNext ==
    \/ BuilderNew
    \/ WithFile
    \/ WithContent
    \/ Requires
    \/ Obsoletes
    \/ Conflicts
    \/ Provides
    \/ Build
    \/ BuiltWrite

InitBuilder == BuilderIdle /\ HeaderIdle /\ LeadIdle /\ ReaderIdle

SpecBuilder == InitBuilder /\ [][BuilderNext]_vars

\* a package is parsed from a stream or built, then written, and the written
\* bytes are parsed
SpecRoundTrip == InitBuilder /\ [][ReaderNext \/ BuilderNext]_vars

-----------------------------------------------------------------------------
(* Properties of the builder, checked under SpecBuilder *)

\* build returned Ok(pkg)
BuiltOk == bpc = "built" /\ built.st = "ok"

\* the value stored under the tag in the main header of the built package
\* (<<>> when the header has no such entry)
MainValue(tag) ==
    IF find_entry(built.pkg.metadata.header, tag) = None THEN <<>>
    ELSE find_entry(built.pkg.metadata.header, tag).v.data.v

\* the destinations of the files of the builder, in ascending order
Destinations == SortedSeq(DOMAIN builder.file_content)

\* the uncompressed payload holding the given CPIO records and the trailer
PayloadOf(cpio) ==
    Flatten([i \in 1..Len(cpio) |->
                cpio_header(cpio[i].name, cpio[i].ino, cpio[i].mode,
                            unwrap_or_0(builder.uid), unwrap_or_0(builder.gid),
                            Len(cpio[i].data))
                \o cpio[i].data \o Pad4(Len(cpio[i].data))])
    \o cpio_trailer

\* C3: for every package build returns, with H the bytes Header::write emits
\* for the main header and P the payload, the signature header holds under
\* RPMSIGTAG_MD5 the Bin value MD5(H followed by P) of 16 bytes, under
\* RPMSIGTAG_SHA1 the String hex(SHA1(H)) and under RPMSIGTAG_SIZE the value
\* Int32[len(H) + len(P)]
C3_DigestCorrectness ==
    BuiltOk =>
        \A H \in {Header_write(built.pkg.metadata.header)} :
        \A P \in {built.pkg.content} :
        \A sig \in {built.pkg.metadata.signature} :
            /\ find_entry(sig, RPMSIGTAG_MD5) # None
            /\ find_entry(sig, RPMSIGTAG_MD5).v.data = Data(KBin, Md5(H \o P))
            /\ find_entry(sig, RPMSIGTAG_MD5).v.num_items = 16
            /\ find_entry(sig, RPMSIGTAG_SHA1) # None
            /\ find_entry(sig, RPMSIGTAG_SHA1).v.data = Data(KString, HexOfBytes(Sha1(H)))
            /\ find_entry(sig, RPMSIGTAG_SIZE) # None
            /\ find_entry(sig, RPMSIGTAG_SIZE).v.data = Data(KInt32, <<Len(H) + Len(P)>>)

\* a package with two files was built and its signature holds the size of the
\* header bytes plus the payload and a SHA1 string of 40 hex digits
C3_Witness ==
    /\ BuiltOk
    /\ Len(built.cpio) = 2
    /\ Len(built.pkg.content) > Len(xz_finish(cpio_trailer))
    /\ find_entry(built.pkg.metadata.signature, RPMSIGTAG_SIZE).v.data.v
         = <<Len(Header_write(built.pkg.metadata.header)) + Len(built.pkg.content)>>
    /\ Len(find_entry(built.pkg.metadata.signature, RPMSIGTAG_SHA1).v.data.v) = 40

\* C4: in every built package the payload holds one CPIO record per file of
\* the builder, in ascending destination order, with ino 1, 2, ...; and the
\* i-th element of the per-file header arrays describes the i-th record
\* (FILEINODES[i] is its ino, FILESIZES[i] its length, FILEDIGESTS[i] the
\* digest of its data, FILEMODES[i] its mode, BASENAMES[i] its file name)
C4_FileOrdering ==
    BuiltOk =>
        /\ built.pkg.content = xz_finish(PayloadOf(built.cpio))
        /\ Len(built.cpio) = Len(Destinations)
        /\ \A i \in 1..Len(built.cpio) :
              /\ built.cpio[i].name = Destinations[i]
              /\ built.cpio[i].ino = i
        /\ \A i \in 1..(Len(built.cpio) - 1) :
              StrLess(built.cpio[i].name, built.cpio[i + 1].name)
        /\ \A tag \in {RPMTAG.FILESIZES, RPMTAG.FILEMODES, RPMTAG.FILERDEVS,
                       RPMTAG.FILEMTIMES, RPMTAG.FILEDIGESTS, RPMTAG.FILELINKTOS,
                       RPMTAG.FILEFLAGS, RPMTAG.FILEUSERNAME, RPMTAG.FILEGROUPNAME,
                       RPMTAG.FILEDEVICES, RPMTAG.FILEINODES, RPMTAG.FILELANGS,
                       RPMTAG.FILEVERIFYFLAGS, RPMTAG.DIRINDEXES, RPMTAG.BASENAMES} :
              Len(MainValue(tag)) = Len(built.cpio)
        /\ \A i \in 1..Len(built.cpio) :
              /\ MainValue(RPMTAG.FILEINODES)[i] = built.cpio[i].ino
              /\ MainValue(RPMTAG.FILESIZES)[i] = Len(built.cpio[i].data)
              /\ MainValue(RPMTAG.FILEDIGESTS)[i] = HexOfBytes(Sha256(built.cpio[i].data))
              /\ MainValue(RPMTAG.FILEMODES)[i] = as_i16(built.cpio[i].mode)
              /\ MainValue(RPMTAG.FILEMTIMES)[i]
                   = FileSystem[builder.file_content[built.cpio[i].name]].mtime
              /\ Path_file_name(built.cpio[i].name) # None
              /\ MainValue(RPMTAG.BASENAMES)[i] = Path_file_name(built.cpio[i].name).v

\* a package with two files of different content and mode was built: the
\* records carry ino 1 and 2 and the sizes are those of the two files in order
C4_Witness ==
    /\ BuiltOk
    /\ Len(built.cpio) = 2
    /\ MainValue(RPMTAG.FILEINODES) = <<1, 2>>
    /\ MainValue(RPMTAG.FILESIZES) = <<5, 2>>
    /\ built.cpio[1].data # built.cpio[2].data

\* the directory name the i-th file entry of the built package points to,
\* followed by its base name (<<>> when the index lies outside DIRNAMES)
FullPath(i) ==
    IF MainValue(RPMTAG.DIRINDEXES)[i] + 1 \in 1..Len(MainValue(RPMTAG.DIRNAMES))
    THEN MainValue(RPMTAG.DIRNAMES)[MainValue(RPMTAG.DIRINDEXES)[i] + 1]
         \o MainValue(RPMTAG.BASENAMES)[i]
    ELSE <<>>

\* C5 as stated: for every file entry of a built package, DIRNAMES[dir_index]
\* followed by base_name equals the destination the file was added under
C5_DirectoryIndirection ==
    BuiltOk =>
        /\ Len(MainValue(RPMTAG.BASENAMES)) = Len(Destinations)
        /\ \A i \in 1..Len(Destinations) : FullPath(i) = Destinations[i]

\* C5 amended: for every file entry of a built package, DIRNAMES[dir_index]
\* followed by base_name equals the destination the file was added under
\* without its first character (the "." of "./etc/x") and without a
\* trailing "/"
C5_DirectoryIndirectionWithoutDot ==
    BuiltOk =>
        /\ Len(MainValue(RPMTAG.BASENAMES)) = Len(Destinations)
        /\ Len(MainValue(RPMTAG.DIRINDEXES)) = Len(Destinations)
        /\ \A i \in 1..Len(Destinations) :
              FullPath(i) = StripSlashes(Drop(Destinations[i], 1))

\* a package with the files "./etc/foo/y" and "./etc/x" was built: the
\* directories are "/etc/" and "/etc/foo/", the first file points to the
\* second directory and the second file to the first
C5_Witness ==
    /\ BuiltOk
    /\ Destinations = << <<46, 47, 101, 116, 99, 47, 102, 111, 111, 47, 121>>,
                         <<46, 47, 101, 116, 99, 47, 120>> >>
    /\ MainValue(RPMTAG.DIRNAMES)
         = << <<47, 101, 116, 99, 47>>, <<47, 101, 116, 99, 47, 102, 111, 111, 47>> >>
    /\ MainValue(RPMTAG.DIRINDEXES) = <<1, 0>>
    /\ FullPath(1) = <<47, 101, 116, 99, 47, 102, 111, 111, 47, 121>>
    /\ FullPath(2) = <<47, 101, 116, 99, 47, 120>>

\* C6: a file added with with_content is part of the built package like one
\* added with with_file: its destination has a CPIO record in the payload,
\* every per-file array has an entry for it (its base name is in BASENAMES)
\* and its parent directory is in DIRNAMES
C6_ContentFilesArePackaged ==
    BuiltOk =>
        \A dest \in DOMAIN builder.byte_content :
            /\ \E i \in 1..Len(built.cpio) : built.cpio[i].name = dest
            /\ Path_file_name(dest).v \in Range(MainValue(RPMTAG.BASENAMES))
            /\ Drop(Path_parent(dest).v, 1) \o Slash \in Range(MainValue(RPMTAG.DIRNAMES))
            /\ Len(MainValue(RPMTAG.FILESIZES))
                 >= Cardinality(DOMAIN builder.byte_content)

\* a builder holding only in-memory content under "./etc/c" was built: build
\* returned a package with no CPIO record, no file entry and no directory
C6_Witness ==
    /\ BuiltOk
    /\ DOMAIN builder.byte_content = { <<46, 47, 101, 116, 99, 47, 99>> }
    /\ DOMAIN builder.file_content = {}
    /\ built.cpio = <<>>
    /\ built.pkg.content = xz_finish(cpio_trailer)
    /\ MainValue(RPMTAG.BASENAMES) = <<>>
    /\ MainValue(RPMTAG.DIRNAMES) = <<>>

-----------------------------------------------------------------------------
(* Properties of Header::parse on foreign bytes, checked under SpecHeader *)

\* the fields of the header bytes in hbytes as they lie there
HbCount == be_u32(SubSeq(hbytes, 9, 12))
HbSize == be_u32(SubSeq(hbytes, 13, 16))
HbEntry(i) ==
    [tag |-> be_u32(SubSeq(hbytes, 16 * i + 1, 16 * i + 4)),
     type |-> be_u32(SubSeq(hbytes, 16 * i + 5, 16 * i + 8)),
     offset |-> be_int(SubSeq(hbytes, 16 * i + 9, 16 * i + 12)),
     count |-> be_u32(SubSeq(hbytes, 16 * i + 13, 16 * i + 16))]
HbStore == SubSeq(hbytes, 16 + 16 * HbCount + 1, 16 + 16 * HbCount + HbSize)

\* hbytes holds a valid index header, the entry table and the store it
\* announces
HbFramed ==
    /\ Len(hbytes) >= 16
    /\ IndexHeader_parse(Take(hbytes, 16)).st = "ok"
    /\ HbCount \in 0..8 /\ HbSize \in 0..64
    /\ Len(hbytes) >= 16 + 16 * HbCount + HbSize

\* and every entry has a known tag and type
HbWellFramed ==
    /\ HbFramed
    /\ \A i \in 1..HbCount :
          HbEntry(i).tag \in TagSet(TOf(region)) /\ HbEntry(i).type \in 0..9

NulCount(s) == Cardinality({i \in 1..Len(s) : s[i] = 0})

\* entry i points outside the store, or its items or strings reach past its end
HbMalformed(i) ==
    \/ HbEntry(i).offset < 0
    \/ HbEntry(i).offset > Len(HbStore)
    \/ /\ HbEntry(i).type \in {KChar, KInt8, KInt16, KInt32, KInt64, KBin}
       /\ HbEntry(i).offset + HbEntry(i).count * ItemWidth(HbEntry(i).type) > Len(HbStore)
    \/ /\ HbEntry(i).type = KStringArray
       /\ NulCount(Drop(HbStore, HbEntry(i).offset)) < HbEntry(i).count

\* C11: for header bytes with a valid index header in which some entry has a
\* negative offset, an offset beyond the store, items that reach past the end
\* of the store or a string-array element without NUL terminator, Header::parse
\* returns an error: it neither aborts nor returns a header
C11_MalformedHeaderIsReported ==
    (HeaderParsed /\ horigin = "foreign" /\ HbWellFramed
        /\ \E i \in 1..HbCount : HbMalformed(i))
    => hparsed.st = "err"

\* header bytes whose only entry has offset 9 into a store of 4 bytes were
\* parsed: the parse aborted
C11_Witness ==
    /\ HeaderParsed /\ horigin = "foreign" /\ HbWellFramed
    /\ HbCount = 1 /\ HbSize = 4
    /\ HbEntry(1).offset = 9
    /\ hparsed.st = "panic"

-----------------------------------------------------------------------------
(* Properties of Lead::parse, checked under SpecLead *)

\* the fields of the 96 bytes b as they lie there
LbFields(b) ==
    MkLead(SubSeq(b, 1, 4), b[5], b[6], b[7] * 256 + b[8], b[9] * 256 + b[10],
           SubSeq(b, 11, 76), b[77] * 256 + b[78], b[79] * 256 + b[80],
           SubSeq(b, 81, 96))

\* the 96 bytes b pass every check Lead::parse makes
LbValid(b) ==
    /\ LbFields(b).magic = RPM_MAGIC
    /\ LbFields(b).major = 3 /\ LbFields(b).minor = 0
    /\ LbFields(b).package_type <= 1
    /\ LbFields(b).os = 1 /\ LbFields(b).signature_type = 5

\* C12: Lead::parse on 96 bytes returns an error when the magic differs from
\* ED AB EE DB (the error names the expected and the found byte), major is
\* not 3, minor is not 0, package_type exceeds 1, os is not 1 or
\* signature_type is not 5, and returns a Lead holding the input's fields
\* otherwise; RPMPackage::parse on a stream starting with a rejected lead
\* returns that error and no package
C12_LeadValidation ==
    /\ (lpc = "parsed") =>
          IF LbValid(lbytes)
          THEN lparsed = [st |-> "ok", lead |-> LbFields(lbytes)]
          ELSE /\ lparsed.st = "err"
               /\ (LbFields(lbytes).magic # RPM_MAGIC) =>
                     /\ lparsed.field = "magic"
                     /\ \E i \in 1..4 :
                           /\ lbytes[i] # RPM_MAGIC[i]
                           /\ lparsed.got = lbytes[i]
                           /\ lparsed.expected = RPM_MAGIC[i]
    /\ (lpc = "parsed" /\ ppc = "parsed") =>
          /\ ~LbValid(lbytes) => ppkg = lparsed
          /\ (ppkg.st = "ok") => ppkg.pkg.metadata.lead = LbFields(lbytes)

\* a stream whose lead starts with ED AB EE DC was given to RPMPackage::parse:
\* the error names the byte DC where DB was expected
C12_Witness ==
    /\ lpc = "parsed" /\ ppc = "parsed"
    /\ SubSeq(lbytes, 1, 4) = <<237, 171, 238, 220>>
    /\ Len(pinput) > 96
    /\ ppkg.st = "err" /\ ppkg.field = "magic"
    /\ ppkg.got = 220 /\ ppkg.expected = 219

-----------------------------------------------------------------------------
(* Properties of the entry table, checked under SpecHeader *)

\* entry i of hbytes carries a tag outside the header's tag set or a type
\* outside 0..=9
HbUnknown(i) ==
    HbEntry(i).tag \notin TagSet(TOf(region)) \/ HbEntry(i).type \notin 0..9

\* the first entry of hbytes that does
HbFirstUnknown ==
    CHOOSE i \in 1..HbCount : HbUnknown(i) /\ \A j \in 1..(i - 1) : ~HbUnknown(j)

\* C13: when an entry of a header's entry table carries a tag that is no
\* member of the header's tag set or a type code outside 0..=9, Header::parse
\* (and parse_signature) returns an error that names the offending integer
\* of the first such entry, and no header
C13_UnknownTagOrType ==
    (HeaderParsed /\ horigin = "foreign" /\ HbFramed /\ \E i \in 1..HbCount : HbUnknown(i))
    => /\ hparsed.st = "err"
       /\ IF HbEntry(HbFirstUnknown).tag \notin TagSet(TOf(region))
          THEN hparsed.error = "invalid tag" /\ hparsed.got = HbEntry(HbFirstUnknown).tag
          ELSE hparsed.error = "invalid tag_type"
               /\ hparsed.got = HbEntry(HbFirstUnknown).type

\* a signature header whose second entry carries tag 1118, a tag of the main
\* header only, was parsed: the error names 1118
C13_Witness ==
    /\ hpc = "parsed_sig" /\ horigin = "foreign" /\ HbFramed
    /\ HbCount = 2
    /\ HbEntry(1).tag = 1000 /\ HbEntry(2).tag = 1118
    /\ hparsed.st = "err" /\ hparsed.error = "invalid tag" /\ hparsed.got = 1118

-----------------------------------------------------------------------------
(* Properties of the lookups, checked under SpecHeader *)

\* the positions of the entries of hdr that carry the tag looked up
LookedAt == {i \in 1..Len(hdr.index_entries) : hdr.index_entries[i].tag = hlookup.tag}

\* the first of them
LookedFirst == hdr.index_entries[CHOOSE i \in LookedAt : \A j \in LookedAt : i <= j]

\* C14: find_entry returns the first entry in entry order that carries the
\* tag and None when none does; find_entry_or_err returns an error exactly
\* then; get_entry_string_data returns the value of an entry of kind String
\* and an error when the tag is absent or the entry is of another kind;
\* get_entry_string_array_data returns an error when the tag is absent or the
\* entry holds no string array (and the strings otherwise)
C14_LookupAndTypedAccess ==
    (hpc = "looked") =>
        IF LookedAt = {}
        THEN /\ hlookup.find = None
             /\ hlookup.or_err.st = "err"
             /\ hlookup.str.st = "err"
             /\ hlookup.arr.st = "err"
        ELSE /\ hlookup.find = [st |-> "some", v |-> LookedFirst]
             /\ hlookup.or_err = [st |-> "ok", v |-> LookedFirst]
             /\ IF LookedFirst.data.kind = KString
                THEN hlookup.str = [st |-> "ok", v |-> LookedFirst.data.v]
                ELSE hlookup.str.st = "err"
             /\ IF LookedFirst.data.kind \in {KStringArray, KI18NString}
                THEN hlookup.arr = [st |-> "ok", v |-> LookedFirst.data.v]
                ELSE hlookup.arr.st = "err"

\* a header with two entries of one tag and different values was looked up:
\* the first of the two was found
C14_Witness ==
    /\ hpc = "looked"
    /\ Cardinality(LookedAt) = 2
    /\ \E i \in LookedAt, j \in LookedAt :
          i < j /\ hdr.index_entries[i].data # hdr.index_entries[j].data
                /\ hlookup.find.v = hdr.index_entries[i]
    /\ hlookup.str.st = "err"

-----------------------------------------------------------------------------
(* Properties of the dependency records of a built package *)

\* the main header of the built package has an entry under the tag
MainHas(tag) == find_entry(built.pkg.metadata.header, tag) # None

\* the kind of the value under the tag in the main header of the built package
MainKind(tag) == find_entry(built.pkg.metadata.header, tag).v.data.kind

\* "name(arch)" of the builder
NameArch == builder.name \o <<40>> \o builder.arch \o <<41>>

\* C15: whatever provides / requires / obsoletes / conflicts calls preceded
\* build, the main header holds PROVIDENAME, PROVIDEVERSION and PROVIDEFLAGS
\* with the caller's provides in insertion order followed by
\* (name, version, EQUAL) and (name(arch), version, EQUAL); REQUIRENAME is
\* present and ends with "/bin/sh", whose sense is ANY (0) and whose version
\* is empty, after the caller's requires; the OBSOLETE* and the CONFLICT*
\* triples are present exactly when the corresponding list is non-empty
C15_ImplicitDependencies ==
    BuiltOk =>
        /\ MainHas(RPMTAG.PROVIDENAME) /\ MainKind(RPMTAG.PROVIDENAME) = KStringArray
        /\ MainHas(RPMTAG.PROVIDEVERSION) /\ MainKind(RPMTAG.PROVIDEVERSION) = KStringArray
        /\ MainHas(RPMTAG.PROVIDEFLAGS) /\ MainKind(RPMTAG.PROVIDEFLAGS) = KInt32
        /\ MainValue(RPMTAG.PROVIDENAME) =
              [i \in 1..Len(builder.provides) |-> builder.provides[i].dep_name]
              \o <<builder.name, NameArch>>
        /\ MainValue(RPMTAG.PROVIDEVERSION) =
              [i \in 1..Len(builder.provides) |-> builder.provides[i].version]
              \o <<builder.version, builder.version>>
        /\ MainValue(RPMTAG.PROVIDEFLAGS) =
              [i \in 1..Len(builder.provides) |-> builder.provides[i].sense]
              \o <<RPMSENSE.EQUAL, RPMSENSE.EQUAL>>
        /\ MainHas(RPMTAG.REQUIRENAME) /\ MainKind(RPMTAG.REQUIRENAME) = KStringArray
        /\ MainValue(RPMTAG.REQUIRENAME) =
              [i \in 1..Len(builder.requires) |-> builder.requires[i].dep_name]
              \o << <<47, 98, 105, 110, 47, 115, 104>> >>
        /\ MainValue(RPMTAG.REQUIREVERSION) =
              [i \in 1..Len(builder.requires) |-> builder.requires[i].version] \o << <<>> >>
        /\ MainValue(RPMTAG.REQUIREFLAGS) =
              [i \in 1..Len(builder.requires) |-> builder.requires[i].sense] \o <<0>>
        /\ \A tag \in {RPMTAG.OBSOLETENAME, RPMTAG.OBSOLETEVERSION, RPMTAG.OBSOLETEFLAGS} :
              MainHas(tag) <=> builder.obsoletes # <<>>
        /\ \A tag \in {RPMTAG.CONFLICTNAME, RPMTAG.CONFLICTVERSION, RPMTAG.CONFLICTFLAGS} :
              MainHas(tag) <=> builder.conflicts # <<>>

\* a package was built after two different provides calls, with no obsoletes
\* and no conflicts: four provides and the single implicit requirement
C15_Witness ==
    /\ BuiltOk
    /\ Len(builder.provides) = 2
    /\ builder.provides[1] # builder.provides[2]
    /\ Len(MainValue(RPMTAG.PROVIDENAME)) = 4
    /\ MainValue(RPMTAG.REQUIRENAME) = << <<47, 98, 105, 110, 47, 115, 104>> >>
    /\ ~MainHas(RPMTAG.OBSOLETENAME)
    /\ ~MainHas(RPMTAG.CONFLICTNAME)

-----------------------------------------------------------------------------
(* Properties of the directory table of a built package *)

\* the parent directory of a destination, normalized to start with "/" (in
\* place of a leading ".") and to end with "/"
ParentDir(dest) ==
    The({ The({ IF q = <<>> \/ q[Len(q)] # 47 THEN q \o Slash ELSE q
                : q \in {IF p # <<>> /\ p[1] = 47 THEN p ELSE Slash \o p} })
          : p \in {IF Path_parent(dest) = None THEN <<>>
                   ELSE IF Path_parent(dest).v # <<>> /\ Path_parent(dest).v[1] = 46
                        THEN Drop(Path_parent(dest).v, 1)
                        ELSE Path_parent(dest).v} })

\* the strings start and end with "/" and ascend strictly
DirectoryList(dirs) ==
    /\ \A i \in 1..Len(dirs) :
          dirs[i] # <<>> /\ dirs[i][1] = 47 /\ dirs[i][Len(dirs[i])] = 47
    /\ \A i \in 1..(Len(dirs) - 1) : StrLess(dirs[i], dirs[i + 1])

\* C16: in every built package DIRNAMES is exactly the set of the parent
\* directories of the destinations files were added under, each string
\* starting and ending with "/", without duplicates and in ascending order
C16_DirectoryTable ==
    BuiltOk =>
        /\ Range(MainValue(RPMTAG.DIRNAMES))
             = {ParentDir(d) : d \in DOMAIN builder.file_content}
        /\ DirectoryList(MainValue(RPMTAG.DIRNAMES))

\* a package was built from "./etc/x" and "a/etc/x", both added with
\* with_file: the directory loop pushed "/etc/" and "a/etc/", the lookup of
\* the second file found "/etc/", and DIRNAMES holds "a/etc/"
C16_Witness ==
    /\ BuiltOk
    /\ DOMAIN builder.file_content
         = { <<46, 47, 101, 116, 99, 47, 120>>, <<97, 47, 101, 116, 99, 47, 120>> }
    /\ builder.byte_content = <<>>
    /\ MainValue(RPMTAG.DIRNAMES)
         = << <<47, 101, 116, 99, 47>>, <<97, 47, 101, 116, 99, 47>> >>
    /\ MainValue(RPMTAG.DIRINDEXES) = <<0, 0>>

-----------------------------------------------------------------------------
(* Properties of the size tag of a built package *)

\* the built package written with RPMPackage::write and parsed with
\* RPMPackage::parse, with and without overflow checks
Reparsed == {RPMPackage_parse(RPMPackage_write(built.pkg), oc) : oc \in BOOLEAN}

-----------------------------------------------------------------------------
(* Properties of create_region_tag *)

\* the entry create_region_tag returned has the tag, kind Bin, count 16 and
\* the offset given, and its 16-byte value parses with IndexEntry::parse as
\* the same tag, kind Bin, count 16 and offset -(records_count + 1) * 16
RegionTagBlob ==
    /\ hregion.st = "ok"
    /\ hregion.entry.tag = hregion.tag
    /\ hregion.entry.data.kind = KBin
    /\ hregion.entry.num_items = 16
    /\ hregion.entry.offset = hregion.offset
    /\ Len(hregion.entry.data.v) = 16
    /\ hregion.parsed.st = "ok"
    /\ hregion.parsed.rest = <<>>
    /\ hregion.parsed.entry.tag = hregion.tag
    /\ hregion.parsed.entry.data.kind = KBin
    /\ hregion.parsed.entry.num_items = 16
    /\ hregion.parsed.entry.offset % 16 = 0
    /\ hregion.parsed.entry.offset \div 16 = -(hregion.records_count + 1)

\* C18 as stated: for every tag, records_count n >= 0 and offset o the entry
\* create_region_tag(tag, n, o) returns has that tag, kind Bin, count 16 and
\* offset o, and its value parses as the same tag, kind Bin, count 16 and
\* offset -(n + 1) * 16
C18_RegionTagBlob == (hpc = "region") => RegionTagBlob

\* C18 amended: the same for every records_count n with 0 <= n < 2^27, the
\* counts for which (n + 1) * -16 fits an i32
C18_RegionTagBlobWithinI32 ==
    (hpc = "region" /\ hregion.records_count < TwoPow27) => RegionTagBlob

\* create_region_tag(HEADER_SIGNATURES, 2, 400) was called and its value
\* parsed: the offset read back is -48
C18_Witness ==
    /\ hpc = "region"
    /\ hregion.st = "ok"
    /\ hregion.tag = HEADER_SIGNATURES
    /\ hregion.records_count = 2
    /\ hregion.offset = 400
    /\ hregion.entry.offset = 400
    /\ hregion.parsed.entry.offset = -48

-----------------------------------------------------------------------------
(* Properties of write followed by parse, checked under SpecRoundTrip *)

\* C19: for every package obtained from RPMPackage::parse or from
\* RPMBuilder::build, parsing the bytes RPMPackage::write produced yields a
\* package with the same lead, signature header (index header and entries),
\* main header and payload; the signature header written with
\* write_signature and parsed with parse_signature is the same header, and
\* nothing is left unread
C19_WriteThenParse ==
    (ppc = "reparsed") =>
        /\ preparsed.pkg.st = "ok"
        /\ preparsed.pkg.pkg.metadata.lead = WrittenPackage.metadata.lead
        /\ preparsed.pkg.pkg.metadata.signature = WrittenPackage.metadata.signature
        /\ preparsed.pkg.pkg.metadata.header = WrittenPackage.metadata.header
        /\ Len(preparsed.pkg.pkg.content) = Len(WrittenPackage.content)
        /\ preparsed.pkg.pkg.content = WrittenPackage.content
        /\ preparsed.sig.st = "ok"
        /\ preparsed.sig.header = WrittenPackage.metadata.signature
        /\ preparsed.sig.rest = <<>>

\* a package with two files was built, written and parsed: the entries of
\* its main header came back, the 64 hexadecimal digits of a file digest
\* among them, and so did the payload
C19_Witness ==
    /\ ppc = "reparsed"
    /\ bpc = "built"
    /\ Cardinality(DOMAIN builder.file_content) = 2
    /\ Len(preparsed.pkg.pkg.metadata.header.index_entries) > 30
    /\ Len(find_entry(preparsed.pkg.pkg.metadata.header, RPMTAG.FILEDIGESTS).v.data.v[2]) = 64
    /\ preparsed.pkg.pkg.content = built.pkg.content
    /\ built.pkg.content # <<>>

-----------------------------------------------------------------------------
(* Properties of the string arrays Header::parse decodes, under SpecHeader *)

\* the position of the k-th zero byte of s (0 for k = 0)
NulPos(s, k) ==
    IF k = 0 THEN 0
    ELSE CHOOSE p \in 1..Len(s) :
             s[p] = 0 /\ Cardinality({q \in 1..(p - 1) : s[q] = 0}) = k - 1

\* the first n NUL-terminated strings of s, without their terminators
CStrings(s, n) == [k \in 1..n |-> SubSeq(s, NulPos(s, k - 1) + 1, NulPos(s, k) - 1)]

\* entry i of the header bytes is a StringArray or an I18NString whose region
\* of the store holds as many NUL-terminated strings as its count says
HbStringArray(i) ==
    /\ HbEntry(i).type \in {KStringArray, KI18NString}
    /\ HbEntry(i).offset \in 0..Len(HbStore)
    /\ NulCount(Drop(HbStore, HbEntry(i).offset)) >= HbEntry(i).count

\* C20: for every entry of kind StringArray or I18NString with count n whose
\* store region holds n consecutive NUL-terminated strings s1..sn, the header
\* Header::parse returns holds exactly [s1, ..., sn] for it: no terminator in
\* any string, element k + 1 starting at the byte after the NUL of element k
C20_StringArrayDecoding ==
    (HeaderParsed /\ HbWellFramed /\ hparsed.st = "ok") =>
        \A i \in 1..HbCount :
            HbStringArray(i) =>
                hparsed.header.index_entries[i].data.v
                    = CStrings(Drop(HbStore, HbEntry(i).offset), HbEntry(i).count)

\* header bytes with an I18NString entry of count 2 over "a", NUL, "b", NUL
\* were parsed: the entry holds "a" and the empty string
C20_Witness ==
    /\ HeaderParsed /\ HbWellFramed /\ hparsed.st = "ok"
    /\ \E i \in 1..HbCount :
          /\ HbStringArray(i)
          /\ HbEntry(i).type = KI18NString
          /\ HbEntry(i).count = 2
          /\ CStrings(Drop(HbStore, HbEntry(i).offset), 2) = << <<97>>, <<98>> >>
          /\ hparsed.header.index_entries[i].data.v = << <<97>>, <<>> >>

-----------------------------------------------------------------------------
(* Properties of the header Header::from_entries builds, under SpecHeader *)

\* the caller holds the header from_entries built from `records`
HeaderBuilt == horigin = "from_entries" /\ hdr # None

\* C21: the header from_entries(E, region_tag) builds has the region entry
\* (tag region_tag, kind Bin, count 16) first and then E in the given order;
\* the offset of the region entry is the store length before its 16-byte
\* value was appended, so the value is the last 16 bytes of the store;
\* num_entries is len(E) + 1, header_size the store length, and the region
\* value encodes the offset -16 * num_entries
C21_ConstructedHeader ==
    HeaderBuilt =>
        /\ Len(hdr.index_entries) = Len(records) + 1
        /\ hdr.index_entries[1].tag = region
        /\ hdr.index_entries[1].data.kind = KBin
        /\ hdr.index_entries[1].num_items = 16
        /\ Len(hdr.index_entries[1].data.v) = 16
        /\ \A i \in 1..Len(records) :
              /\ hdr.index_entries[i + 1].tag = records[i].tag
              /\ hdr.index_entries[i + 1].data = records[i].data
              /\ hdr.index_entries[i + 1].num_items = records[i].num_items
        /\ hdr.index_entries[1].offset = Len(hdr.store) - 16
        /\ SubSeq(hdr.store, Len(hdr.store) - 15, Len(hdr.store)) = hdr.index_entries[1].data.v
        /\ hdr.index_header.num_entries = Len(records) + 1
        /\ hdr.index_header.header_size = Len(hdr.store)
        /\ be_int(SubSeq(hdr.index_entries[1].data.v, 9, 12))
             = -16 * hdr.index_header.num_entries

\* a header was built from two entries of different tags: three entries,
\* the region entry first, its value behind the values of the two
C21_Witness ==
    /\ HeaderBuilt /\ hpc = "built"
    /\ Len(records) = 2
    /\ records[1].tag # records[2].tag
    /\ hdr.index_entries[1].tag = region
    /\ hdr.index_entries[1].offset > 0
    /\ hdr.index_header.num_entries = 3

-----------------------------------------------------------------------------
(* Properties of the store Header::from_entries fills, under SpecHeader *)

\* the store as it was before the value of entry i of a built header was
\* appended (entry 1, the region entry, is appended last)
StoreBefore(i) ==
    IF i = 1 THEN Take(hdr.store, Len(hdr.store) - 16)
    ELSE Take(hdr.store, EndOfPrevious(hdr, i))

\* the entries of a built header in the order their values were appended
AppendOrder == [k \in 1..Len(hdr.index_entries) |->
                   IF k = Len(hdr.index_entries) THEN 1 ELSE k + 1]

\* C22: in a header from_entries built the values lie in the store in the
\* order the entries were given (the region value last) and do not overlap;
\* every entry has 0 <= offset and offset + byte_size(value) <= store length;
\* each IndexData::append grew the store by exactly the alignment it returned
\* plus byte_size(value)
C22_StoreLayout ==
    HeaderBuilt =>
        /\ \A i \in 1..Len(hdr.index_entries) :
              /\ 0 <= hdr.index_entries[i].offset
              /\ hdr.index_entries[i].offset + byte_size(hdr.index_entries[i].data)
                   <= Len(hdr.store)
              /\ Len(append(hdr.index_entries[i].data, StoreBefore(i)).store)
                   = Len(StoreBefore(i))
                     + append(hdr.index_entries[i].data, StoreBefore(i)).alignment
                     + byte_size(hdr.index_entries[i].data)
              /\ hdr.index_entries[i].offset
                   = Len(StoreBefore(i))
                     + append(hdr.index_entries[i].data, StoreBefore(i)).alignment
        /\ \A k \in 1..(Len(hdr.index_entries) - 1) :
              hdr.index_entries[AppendOrder[k]].offset
                + byte_size(hdr.index_entries[AppendOrder[k]].data)
                <= hdr.index_entries[AppendOrder[k + 1]].offset
        /\ hdr.index_entries[1].offset + 16 = Len(hdr.store)

\* a header was built from a string "ab" and an Int32: the string takes the
\* bytes 0..2, one byte pads, the integer lies at 4 and the region value at 8
C22_Witness ==
    /\ HeaderBuilt /\ hpc = "built"
    /\ Len(records) = 2
    /\ records[1].data = Data(KString, <<97, 98>>)
    /\ records[2].data.kind = KInt32
    /\ hdr.index_entries[2].offset = 0
    /\ hdr.index_entries[3].offset = 4
    /\ hdr.index_entries[1].offset = 8
    /\ Len(hdr.store) = 24

-----------------------------------------------------------------------------
(* Properties of the signature padding, checked under SpecRoundTrip *)

\* index header, entry table and store of a header, in bytes
BodyLen(h) == 16 + 16 * Len(h.index_entries) + Len(h.store)

\* (8 - S mod 8) mod 8 for the store size S of a header
PadOf(h) == (8 - (Len(h.store) % 8)) % 8

\* what follows the signature header and its padding in the written package
AfterSignature == Header_write(WrittenPackage.metadata.header) \o WrittenPackage.content

\* C23: for the signature header of a package, with store size S,
\* write_signature emits the header and then exactly (8 - S mod 8) mod 8
\* zero bytes, and parse_signature consumes exactly these bytes, so that the
\* main header is parsed from its first byte; Header::write emits and
\* Header::parse consumes no padding for the main header
C23_SignaturePaddingAgrees ==
    (ppc \in {"written", "reparsed"}) =>
        /\ Len(write_signature(WrittenPackage.metadata.signature))
             = BodyLen(WrittenPackage.metadata.signature)
               + PadOf(WrittenPackage.metadata.signature)
        /\ Take(write_signature(WrittenPackage.metadata.signature),
                BodyLen(WrittenPackage.metadata.signature))
             = Header_write(WrittenPackage.metadata.signature)
        /\ Len(Header_write(WrittenPackage.metadata.signature))
             = BodyLen(WrittenPackage.metadata.signature)
        /\ pout = Take(pout, LEAD_SIZE)
                  \o write_signature(WrittenPackage.metadata.signature) \o AfterSignature
        /\ \A oc \in BOOLEAN :
              /\ parse_signature(Drop(pout, LEAD_SIZE), oc).st = "ok"
              /\ parse_signature(Drop(pout, LEAD_SIZE), oc).rest = AfterSignature
              /\ Header_parse("main", AfterSignature, oc).st = "ok"
              /\ Header_parse("main", AfterSignature, oc).header
                   = WrittenPackage.metadata.header
              /\ Header_parse("main", AfterSignature, oc).rest = WrittenPackage.content
        /\ Len(Header_write(WrittenPackage.metadata.header))
             = BodyLen(WrittenPackage.metadata.header)

\* a built package was written: its signature store of 77 bytes is followed
\* by 3 bytes of padding, and its main header, whose store size is no
\* multiple of 8, by the payload
C23_Witness ==
    /\ ppc = "written" /\ bpc = "built"
    /\ Len(built.pkg.metadata.signature.store) = 77
    /\ PadOf(built.pkg.metadata.signature) = 3
    /\ Len(built.pkg.metadata.header.store) % 8 # 0
    /\ Len(pout) = LEAD_SIZE + BodyLen(built.pkg.metadata.signature) + 3
                   + BodyLen(built.pkg.metadata.header) + Len(built.pkg.content)

-----------------------------------------------------------------------------
(* Properties of the order of the payload steps of build, under SpecBuilder *)

\* the positions of the event e in the events of the build
EventsAt(e) == {i \in 1..Len(built.events) : built.events[i] = e}

\* the events that write to the compressor
CompressorWrites == {"file_write", "file_finish", "trailer"}

-----------------------------------------------------------------------------
(* Properties of the error path of build, under SpecBuilder *)

\* build returned, with a package or with an error
BuildReturned == bpc = "built" /\ built.st \in {"ok", "err"}

\* the destinations of the files in the order build visits them
Files == SortedSeq(DOMAIN builder.file_content)

\* the directory table of the first pass of build
FirstPassTable == SortedSeq(Range(DirLoop(Files, <<>>)))

\* the destination has no parent
NoParent(dest) == Path_parent(dest) = None

\* the destination has a parent and the string build looks up for it, the
\* parent and "/" without the first character, is not in the table
DirMissing(dest) ==
    /\ Path_parent(dest) # None
    /\ Drop(Path_parent(dest).v \o Slash, 1) \notin Range(FirstPassTable)

\* the destination has no file name (it ends in "..")
NoFileName(dest) == Path_file_name(dest) = None

\* the failed build stopped at the first destination in Bad: its record is the
\* last one written, no trailer, no end of compression, no signature, no
\* package
StoppedAtFirst(Bad) ==
    /\ "pkg" \notin DOMAIN built
    /\ "signature" \notin Range(built.events)
    /\ "finish_compression" \notin Range(built.events)
    /\ "trailer" \notin Range(built.events)
    /\ Len(built.cpio) >= 1
    /\ \A i \in 1..Len(built.cpio) : built.cpio[i].name = Files[i]
    /\ built.cpio[Len(built.cpio)].name \in Bad
    /\ \A i \in 1..(Len(built.cpio) - 1) : built.cpio[i].name \notin Bad

-----------------------------------------------------------------------------
(* Properties of the per-file tables of a built package, under SpecBuilder *)

\* the tags of the tables with one element per file
PerFileTags ==
    { RPMTAG.FILESIZES, RPMTAG.FILEMODES, RPMTAG.FILERDEVS, RPMTAG.FILEMTIMES,
      RPMTAG.FILEDIGESTS, RPMTAG.FILELINKTOS, RPMTAG.FILEFLAGS, RPMTAG.FILEUSERNAME,
      RPMTAG.FILEGROUPNAME, RPMTAG.FILEDEVICES, RPMTAG.FILEINODES, RPMTAG.FILELANGS,
      RPMTAG.FILEVERIFYFLAGS, RPMTAG.DIRINDEXES, RPMTAG.BASENAMES }

\* the count recorded in the entry of the tag in the main header
MainCount(tag) == find_entry(built.pkg.metadata.header, tag).v.num_items

\* C26: in every built package each per-file table is present with a count,
\* and a number of elements, equal to the number of files in the payload, and
\* every element of DIRINDEXES is an index into DIRNAMES
C26_ParallelTables ==
    BuiltOk =>
        /\ \A tag \in PerFileTags :
              /\ MainHas(tag)
              /\ MainCount(tag) = Len(built.cpio)
              /\ Len(MainValue(tag)) = Len(built.cpio)
        /\ MainHas(RPMTAG.DIRNAMES)
        /\ MainCount(RPMTAG.DIRNAMES) = Len(MainValue(RPMTAG.DIRNAMES))
        /\ \A i \in 1..Len(MainValue(RPMTAG.DIRINDEXES)) :
              /\ 0 <= MainValue(RPMTAG.DIRINDEXES)[i]
              /\ MainValue(RPMTAG.DIRINDEXES)[i] < MainCount(RPMTAG.DIRNAMES)

\* a package with two files in two directories was built: the tables have two
\* elements each and DIRINDEXES is 0, 1
C26_Witness ==
    /\ BuiltOk
    /\ Len(built.cpio) = 2
    /\ MainCount(RPMTAG.BASENAMES) = 2
    /\ MainCount(RPMTAG.DIRNAMES) = 2
    /\ MainValue(RPMTAG.DIRINDEXES) = <<0, 1>>

-----------------------------------------------------------------------------
(* The directory strings of the two passes of build, under SpecBuilder *)

\* C27: for every destination with a parent directory the string looked up
\* in the second pass is in the table the first pass built, and build does
\* not fail with a missing directory
C27_SameNormalisation ==
    BuildReturned =>
        /\ \A d \in DOMAIN builder.file_content :
              Path_parent(d) # None => ~DirMissing(d)
        /\ (built.st = "err") => built.error # "unable to find directory"

\* "/etc/x" alone was added: the first pass stored "/etc/", the second pass
\* looked "etc/" up and the build failed
C27_Witness ==
    /\ BuildReturned
    /\ DOMAIN builder.file_content = {<<47, 101, 116, 99, 47, 120>>}
    /\ FirstPassTable = << <<47, 101, 116, 99, 47>> >>
    /\ DirMissing(<<47, 101, 116, 99, 47, 120>>)
    /\ built.st = "err" /\ built.error = "unable to find directory"

-----------------------------------------------------------------------------
(* The length arithmetic of Header::parse, under SpecHeader *)

\* the index header at the start of the bytes given to Header::parse
GivenIndexHeader == IndexHeader_parse(Take(hbytes, 16))

\* C28: for every index header, Header::parse computes the number of bytes to
\* read, 16 * num_entries + header_size, without overflow and reads exactly
\* that many after the index header, and whenever the entry table was parsed
\* the bytes left number exactly header_size
C28_LengthDoesNotWrap ==
    (hpc = "parsed" /\ Len(hbytes) >= 16 /\ GivenIndexHeader.st = "ok") =>
        \A oc \in BOOLEAN :
            /\ parse_buf_len(GivenIndexHeader.ih, oc).st = "ok"
            /\ ~parse_buf_len(GivenIndexHeader.ih, oc).wrapped
            /\ (hparsed.st = "ok") =>
                  Len(hbytes) - Len(hparsed.rest)
                    = 16 + parse_buf_len(GivenIndexHeader.ih, oc).len
            /\ (/\ parse_buf_len(GivenIndexHeader.ih, oc).len <= Len(hbytes) - 16
                /\ parse_index_entries(TOf(region),
                       SubSeq(hbytes, 17, 16 + parse_buf_len(GivenIndexHeader.ih, oc).len),
                       GivenIndexHeader.ih.num_entries).st = "ok") =>
                  Len(parse_index_entries(TOf(region),
                          SubSeq(hbytes, 17, 16 + parse_buf_len(GivenIndexHeader.ih, oc).len),
                          GivenIndexHeader.ih.num_entries).rest)
                    = GivenIndexHeader.ih.header_size

\* an index header with num_entries = 2^28 and header_size = 4 was parsed by a
\* build with overflow checks, which aborted
C28_Witness ==
    /\ hpc = "parsed" /\ Len(hbytes) >= 16 /\ GivenIndexHeader.st = "ok"
    /\ GivenIndexHeader.ih.num_entries = TwoPow28
    /\ GivenIndexHeader.ih.header_size = 4
    /\ hparsed.st = "panic"

-----------------------------------------------------------------------------
(* Totality of Lead::new, under SpecLead *)

\* name_size of Lead::new: the length of the name, at most 65
NameSize(name) == IF Len(name) > 65 THEN 65 ELSE Len(name)

\* C29: for every name, the empty one and those of 65, 66 and more bytes
\* included, the upper end name_size - 1 of the index range of Lead::new is
\* neither negative nor beyond the 66-byte field, Lead::new returns a lead,
\* and build of a builder with that name does not abort
C29_LeadNewTotal ==
    (lpc = "new") =>
        /\ 0 <= NameSize(lname) - 1
        /\ NameSize(lname) - 1 <= 66
        /\ lead.st = "ok"
        /\ build(RPMBuilder_new(lname, <<49, 46, 48, 46, 48>>, <<77, 73, 84>>,
                                <<120, 56, 54, 95, 54, 52>>, <<100, 101, 115, 99>>)).st
             # "panic"

\* Lead::new("") was called and aborted
C29_Witness ==
    /\ lpc = "new" /\ lname = <<>>
    /\ NameSize(lname) - 1 = -1
    /\ lead.st = "panic"

-----------------------------------------------------------------------------
(* One file per destination, under SpecBuilder *)

\* the destinations of the with_file calls so far
CalledDests == {bfiles[i].dest : i \in 1..Len(bfiles)}

\* the source of the most recent with_file call for the destination
LatestSource(dest) ==
    bfiles[CHOOSE i \in 1..Len(bfiles) :
              /\ bfiles[i].dest = dest
              /\ \A j \in (i + 1)..Len(bfiles) : bfiles[j].dest # dest].source

\* the builder holds one source per destination of a with_file call, the one
\* of the most recent call; a built package has one file entry and one CPIO
\* record per destination
OnePerDestination ==
    /\ (bpc \in {"building", "built"}) =>
          /\ DOMAIN builder.file_content = CalledDests
          /\ \A d \in CalledDests : builder.file_content[d] = LatestSource(d)
    /\ BuiltOk =>
          /\ Len(built.cpio) = Cardinality(CalledDests)
          /\ {built.cpio[i].name : i \in 1..Len(built.cpio)} = CalledDests
          /\ \A i \in 1..Len(built.cpio) :
                built.cpio[i].data = FileSystem[LatestSource(built.cpio[i].name)].content
          /\ MainCount(RPMTAG.BASENAMES) = Cardinality(CalledDests)
          /\ MainValue(RPMTAG.FILESIZES)
               = [i \in 1..Len(built.cpio) |-> Len(built.cpio[i].data)]

\* a with_file call that returned Ok left every field of the builder but
\* file_content, and the sources of the other destinations, as they were
WithFileStep ==
    (bpc = "building" /\ bpc' = "building" /\ bfiles' # bfiles) =>
        /\ \A f \in (DOMAIN builder) \ {"file_content"} : builder'[f] = builder[f]
        /\ \A d \in DOMAIN builder.file_content :
              d # bfiles'[Len(bfiles')].dest =>
                 /\ d \in DOMAIN builder'.file_content
                 /\ builder'.file_content[d] = builder.file_content[d]

\* C30: after any sequence of with_file calls the builder holds exactly one
\* source per distinct destination, that of the most recent call for it, and
\* the built package has exactly one file entry and one CPIO record per
\* distinct destination; a with_file call changes neither the dependencies,
\* nor the metadata, nor what the other destinations hold
C30_OneFilePerDestination == [](OnePerDestination) /\ [][WithFileStep]_vars

\* with_file("a", "./etc/x") and then with_file("b", "./etc/x") were called
\* and the package built: it has one file, with the content of "b"
C30_Witness ==
    /\ BuiltOk
    /\ bfiles = << [source |-> "a", dest |-> <<46, 47, 101, 116, 99, 47, 120>>],
                   [source |-> "b", dest |-> <<46, 47, 101, 116, 99, 47, 120>>] >>
    /\ Len(built.cpio) = 1
    /\ built.cpio[1].data = FileSystem["b"].content

====
